---- MODULE Spec2Model ----
(***************************************************************************)
(* Periodic Task Layer (PTL) on FreeRTOS: the task registry and its        *)
(* initialisation (ptl_wrapper.c), the generic wrapper loop                *)
(* (ptl_wrapper.c), the supervisor (ptl_scheduler.c) and the trace ring    *)
(* (ptl_trace.c).                                                          *)
(*                                                                         *)
(* Two specifications share the variables:                                 *)
(*   SpecInit  the application calling PTL_Init / PTL_Start / PTL_LogEvent *)
(*             from main(), before the kernel scheduler runs;              *)
(*   Spec      the running system: tick interrupt + supervisor pass,       *)
(*             and the wrapper tasks, preemptible at every shared access.  *)
(***************************************************************************)
EXTENDS Integers, Sequences, FiniteSets, TLC

(***************************************************************************)
(* Program constants.                                                      *)
(***************************************************************************)
PTL_MAX_TASKS == 8

\* The ring capacity of the source is 1024; the model keeps the code's
\* arithmetic and scales the capacity so that the ring wraps within the
\* time horizon.
PTL_TRACE_BUFFER_SIZE == 6

\* xSupervisorPeriod = pdMS_TO_TICKS(1)
xSupervisorPeriod == 1
\* the kernel's number of priorities (FreeRTOSConfig.h) and the priority
\* PTL_Scheduler_Start gives the supervisor
configMAX_PRIORITIES == 5
PTL_SUPERVISOR_PRIORITY == configMAX_PRIORITIES - 1

(***************************************************************************)
(* Bounds of the model.                                                    *)
(***************************************************************************)
\* API calls main() makes in SpecInit
MaxCalls == 3
\* last tick of the time horizon of Spec
MaxTick == 4
\* tasks registered in Spec
NumTasks == 2
\* largest period of a task configuration in Spec
MaxPeriod == 2
\* ticks Burn_Calibrate waits (101 in the source, scaled)
CalibTicks == 1
\* records written in SpecTrace (more than the ring holds)
MaxWrites == 7

(***************************************************************************)
(* Values.                                                                 *)
(***************************************************************************)
NULL == <<>>

pdPASS == "pdPASS"
pdFAIL == "pdFAIL"

PTL_POLICY_USE_GLOBAL == "USE_GLOBAL"
PTL_POLICY_SKIP == "SKIP"
PTL_POLICY_KILL == "KILL"
PTL_POLICY_CATCH_UP == "CATCH_UP"

PTL_EVENT_RELEASE == "RELEASE"
PTL_EVENT_START == "START"
PTL_EVENT_COMPLETE == "COMPLETE"
PTL_EVENT_DEADLINE_MISS == "DEADLINE_MISS"
PTL_EVENT_OVERRUN_SKIP == "OVERRUN_SKIP"
PTL_EVENT_OVERRUN_KILL == "OVERRUN_KILL"
PTL_EVENT_OVERRUN_CATCHUP == "OVERRUN_CATCHUP"
PTL_EVENT_SWITCH_IN == "SWITCH_IN"
PTL_EVENT_IDLE_START == "IDLE_START"
PTL_EVENT_IDLE_END == "IDLE_END"

VARIABLES
    \* ptl_wrapper.c statics
    xTaskPool, uxRegisteredTaskCount, xIsInitialized,
    eGlobalPolicy, xTracingEnabled, uxMaxTasksAllowed,
    \* ptl_trace.c statics
    xTraceBuffer, ulWriteIndex, xBufferWrapped, xIdleTimeTotal, xLastIdleEntry,
    \* kernel: tick counter, live task count, handle allocator, scheduler
    xTickCount, uxKernelTasks, uxHandlesCreated, xSchedulerRunning,
    \* the wrapper task attached to each slot (position, notification value, locals)
    xWrappers,
    \* the supervisor task (position, xLastWakeTime, xSystemStartTime)
    xSupervisor,
    \* main(): number of API calls made, the last call and what it returned
    uxCalls, xLastCall, xReturn,
    \* history of the running system, kept for the properties
    xHistory

vars == <<xTaskPool, uxRegisteredTaskCount, xIsInitialized, eGlobalPolicy,
          xTracingEnabled, uxMaxTasksAllowed, xTraceBuffer, ulWriteIndex,
          xBufferWrapped, xIdleTimeTotal, xLastIdleEntry, xTickCount,
          uxKernelTasks, uxHandlesCreated, xSchedulerRunning, xWrappers,
          xSupervisor, uxCalls, xLastCall, xReturn, xHistory>>

ptlVars == <<xTaskPool, uxRegisteredTaskCount, xIsInitialized, eGlobalPolicy,
             xTracingEnabled, uxMaxTasksAllowed>>

traceVars == <<xTraceBuffer, ulWriteIndex, xBufferWrapped, xIdleTimeTotal,
               xLastIdleEntry>>

(***************************************************************************)
(* Static storage as the C runtime zero-initialises it.                    *)
(***************************************************************************)
\* PTL_TaskConfig_t, all bytes zero (enum value 0 is PTL_POLICY_SKIP)
ZeroConfig ==
    [pcName |-> "", xPeriod |-> 0, xDeadline |-> 0, uxPriority |-> 0,
     pvEntryFunction |-> "NULL", eOverrunPolicy |-> PTL_POLICY_SKIP]

\* PTL_TaskObj_t, all bytes zero
ZeroTaskObj ==
    [xConfig |-> ZeroConfig, xTaskHandle |-> 0,
     xNextReleaseTime |-> 0, xCurrentReleaseTime |-> 0,
     xIsActive |-> FALSE, xDeadlineMissed |-> FALSE,
     ulJobsCompleted |-> 0, ulDeadlineMisses |-> 0,
     ulOverrunSkips |-> 0, ulOverrunKills |-> 0, ulOverrunCatchUps |-> 0]

\* PTL_TraceRecord_t, all bytes zero (event value 0 is PTL_EVENT_RELEASE)
ZeroRecord == [pcTaskName |-> "", eEvent |-> PTL_EVENT_RELEASE, xTimestamp |-> 0]

\* a wrapper task as xTaskCreate leaves it: at its entry point, no notification
FreshWrapper ==
    [pc |-> "entry", ulNotifiedValue |-> 0, xEffectiveDeadline |-> 0,
     xJobStartTime |-> 0, xJobEndTime |-> 0, ulLoaded |-> 0]

\* no wrapper task attached to the slot
NoWrapper == [FreshWrapper EXCEPT !.pc = "none"]

(***************************************************************************)
(* Trace ring (ptl_trace.c).  A ring value is the record of the five       *)
(* statics.                                                                *)
(***************************************************************************)
TraceState ==
    [buf |-> xTraceBuffer, ulWriteIndex |-> ulWriteIndex,
     xBufferWrapped |-> xBufferWrapped, xIdleTimeTotal |-> xIdleTimeTotal,
     xLastIdleEntry |-> xLastIdleEntry]

SetTrace(tr) ==
    /\ xTraceBuffer' = tr.buf
    /\ ulWriteIndex' = tr.ulWriteIndex
    /\ xBufferWrapped' = tr.xBufferWrapped
    /\ xIdleTimeTotal' = tr.xIdleTimeTotal
    /\ xLastIdleEntry' = tr.xLastIdleEntry

\* PTL_TraceInit: the buffer itself is not cleared
PTL_TraceInit(tr) ==
    [tr EXCEPT !.ulWriteIndex = 0, !.xBufferWrapped = FALSE,
               !.xIdleTimeTotal = 0, !.xLastIdleEntry = 0]

\* (mutant) PTL_LogEvent that wraps the index without setting xBufferWrapped
PTL_LogEvent_NoWrapFlag(tr, pcTaskName, eType, xTime) ==
    LET rec == [pcTaskName |-> pcTaskName, eEvent |-> eType, xTimestamp |-> xTime]
        nxt == tr.ulWriteIndex + 1
    IN  [tr EXCEPT !.buf = [tr.buf EXCEPT ![tr.ulWriteIndex] = rec],
                   !.ulWriteIndex = IF nxt >= PTL_TRACE_BUFFER_SIZE THEN 0 ELSE nxt]

\* PTL_LogEvent: one critical section
PTL_LogEvent(tr, pcTaskName, eType, xTime) ==
    LET rec == [pcTaskName |-> pcTaskName, eEvent |-> eType, xTimestamp |-> xTime]
        nxt == tr.ulWriteIndex + 1
    IN  [tr EXCEPT !.buf = [tr.buf EXCEPT ![tr.ulWriteIndex] = rec],
                   !.ulWriteIndex = IF nxt >= PTL_TRACE_BUFFER_SIZE THEN 0 ELSE nxt,
                   !.xBufferWrapped = IF nxt >= PTL_TRACE_BUFFER_SIZE THEN TRUE ELSE @]

\* the snapshot PTL_GetTraceStatistics / PTL_PrintTrace take
SnapshotCount(tr) == IF tr.xBufferWrapped THEN PTL_TRACE_BUFFER_SIZE ELSE tr.ulWriteIndex
SnapshotStart(tr) == IF tr.xBufferWrapped THEN tr.ulWriteIndex ELSE 0

\* the readable range, oldest first
Readable(tr) ==
    [k \in 1..SnapshotCount(tr) |->
        tr.buf[(SnapshotStart(tr) + (k - 1)) % PTL_TRACE_BUFFER_SIZE]]

\* PTL_TrackIdleEntry: store the entry time, then log IDLE_START
PTL_TrackIdleEntry(tr, xTime) ==
    PTL_LogEvent([tr EXCEPT !.xLastIdleEntry = xTime], "IDLE", PTL_EVENT_IDLE_START, xTime)

\* (mutant) an idle exit that accumulates the exit time itself
PTL_TrackIdleExit_WholeTime(tr, xTime) ==
    PTL_LogEvent([tr EXCEPT !.xIdleTimeTotal = @ + xTime],
                 "IDLE", PTL_EVENT_IDLE_END, xTime)

\* PTL_TrackIdleExit: accumulate the idle time, then log IDLE_END
PTL_TrackIdleExit(tr, xTime) ==
    PTL_LogEvent(
        [tr EXCEPT !.xIdleTimeTotal =
            IF xTime >= tr.xLastIdleEntry THEN @ + (xTime - tr.xLastIdleEntry) ELSE @],
        "IDLE", PTL_EVENT_IDLE_END, xTime)

\* the number of readable records whose event is in the set events
CountEvents(tr, events) ==
    Cardinality({ k \in DOMAIN Readable(tr) : Readable(tr)[k].eEvent \in events })

\* PTL_GetTraceStatistics: the statistics it stores in *pxStats; the
\* utilisation, a float quotient, is kept as <<dividend, divisor>>, the
\* dividend standing for its residue modulo 2^32
PTL_GetTraceStatistics(tr) ==
    LET ulCount == SnapshotCount(tr)
        ulTotalTimeMs == IF ulCount > 0 THEN Readable(tr)[ulCount].xTimestamp ELSE 0
        ulIdleTimeMs == tr.xIdleTimeTotal
    IN  [ulTotalReleases |-> CountEvents(tr, {PTL_EVENT_RELEASE}),
         ulTotalCompletions |-> CountEvents(tr, {PTL_EVENT_COMPLETE}),
         ulDeadlineMisses |-> CountEvents(tr, {PTL_EVENT_DEADLINE_MISS}),
         ulOverrunCount |-> CountEvents(tr, {PTL_EVENT_OVERRUN_SKIP,
                               PTL_EVENT_OVERRUN_KILL, PTL_EVENT_OVERRUN_CATCHUP}),
         ulIdleTimeMs |-> ulIdleTimeMs,
         ulTotalTimeMs |-> ulTotalTimeMs,
         fCPUUtilization |-> IF ulTotalTimeMs > 0
                             THEN <<ulTotalTimeMs - ulIdleTimeMs, ulTotalTimeMs>>
                             ELSE <<0, 1>>]

\* (mutant) a statistics call that consumes the idle counter
StatisticsLeave_IdleReset(tr) == [tr EXCEPT !.xIdleTimeTotal = 0]

\* the statics as a PTL_GetTraceStatistics call leaves them: it only reads
StatisticsLeave(tr) == tr

(***************************************************************************)
(* PTL_Init (ptl_wrapper.c).                                               *)
(***************************************************************************)
\* (mutant) the validation without the uxMaxTasks comparison
InitArgsValid_NoMaxTasks(pxGlobalConfig, pxTaskConfigs, uxTaskCount, initialized) ==
    /\ ~(pxGlobalConfig = NULL \/ pxTaskConfigs = NULL)
    /\ ~(uxTaskCount = 0 \/ uxTaskCount > PTL_MAX_TASKS)
    /\ ~(initialized = TRUE)

\* (mutant) the validation without the xIsInitialized test
InitArgsValid_NoReinitTest(pxGlobalConfig, pxTaskConfigs, uxTaskCount, initialized) ==
    /\ ~(pxGlobalConfig = NULL \/ pxTaskConfigs = NULL)
    /\ ~(uxTaskCount = 0 \/ uxTaskCount > PTL_MAX_TASKS)
    /\ ~(uxTaskCount > pxGlobalConfig[1].uxMaxTasks)

\* the validation that precedes any store
InitArgsValid(pxGlobalConfig, pxTaskConfigs, uxTaskCount, initialized) ==
    /\ ~(pxGlobalConfig = NULL \/ pxTaskConfigs = NULL)
    /\ ~(uxTaskCount = 0 \/ uxTaskCount > PTL_MAX_TASKS)
    /\ ~(uxTaskCount > pxGlobalConfig[1].uxMaxTasks)
    /\ ~(initialized = TRUE)

\* (mutant) the deadline stored as given
NormalizeDeadline_AsGiven(cfg) == cfg

\* "If deadline=0, use period."
NormalizeDeadline(cfg) ==
    IF cfg.xDeadline = 0 THEN [cfg EXCEPT !.xDeadline = cfg.xPeriod] ELSE cfg

\* the slot as the loop body leaves it before xTaskCreate
InitSlot(pxConfig) ==
    [ZeroTaskObj EXCEPT !.xConfig = NormalizeDeadline(pxConfig)]

\* The creation loop from index i on.  st = [pool, wrappers, tasks, handles];
\* failAt is the index at which xTaskCreate runs out of heap (0: never).
\* The result carries xReturn; a failure returns from inside the loop.
RECURSIVE InitLoop(_, _, _, _, _)
InitLoop(st, cfgs, i, uxTaskCount, failAt) ==
    IF i > uxTaskCount
    THEN [st EXCEPT !.ret = pdPASS]
    ELSE IF cfgs[i].pvEntryFunction = "NULL"
    THEN [st EXCEPT !.ret = pdFAIL]
    ELSE IF failAt = i
    THEN [st EXCEPT !.pool[i] = InitSlot(cfgs[i]), !.ret = pdFAIL]
    ELSE InitLoop(
            [st EXCEPT !.pool[i] = [InitSlot(cfgs[i]) EXCEPT
                                        !.xTaskHandle = st.handles + 1],
                       !.wrappers[i] = FreshWrapper,
                       !.tasks = @ + 1,
                       !.handles = @ + 1],
            cfgs, i + 1, uxTaskCount, failAt)

\* the statics PTL_Init reads and may write, with the value it returns
CurrentStatics ==
    [pool |-> xTaskPool, wrappers |-> xWrappers,
     tasks |-> uxKernelTasks, handles |-> uxHandlesCreated,
     ret |-> pdFAIL,
     count |-> uxRegisteredTaskCount, init |-> xIsInitialized,
     policy |-> eGlobalPolicy, tracing |-> xTracingEnabled,
     maxTasks |-> uxMaxTasksAllowed, trace |-> TraceState]

\* PTL_Init from the statics pre: the statics it leaves and its return value
InitOutcome(pre, pxGlobalConfig, pxTaskConfigs, uxTaskCount, failAt) ==
    IF ~InitArgsValid(pxGlobalConfig, pxTaskConfigs, uxTaskCount, pre.init)
    THEN pre
    ELSE LET g == pxGlobalConfig[1]
             stored == [pre EXCEPT
                 !.policy = g.eOverrunPolicy,
                 !.tracing = g.xTracingEnabled,
                 !.maxTasks = g.uxMaxTasks,
                 !.trace = IF g.xTracingEnabled THEN PTL_TraceInit(@) ELSE @]
             looped == InitLoop(stored, pxTaskConfigs[1], 1, uxTaskCount, failAt)
         IN  IF looped.ret = pdPASS
             THEN [looped EXCEPT !.count = uxTaskCount, !.init = TRUE]
             ELSE looped

PTL_InitResult(pxGlobalConfig, pxTaskConfigs, uxTaskCount, failAt) ==
    InitOutcome(CurrentStatics, pxGlobalConfig, pxTaskConfigs, uxTaskCount, failAt)

ApplyInitResult(r) ==
    /\ xTaskPool' = r.pool
    /\ xWrappers' = r.wrappers
    /\ uxKernelTasks' = r.tasks
    /\ uxHandlesCreated' = r.handles
    /\ uxRegisteredTaskCount' = r.count
    /\ xIsInitialized' = r.init
    /\ eGlobalPolicy' = r.policy
    /\ xTracingEnabled' = r.tracing
    /\ uxMaxTasksAllowed' = r.maxTasks
    /\ SetTrace(r.trace)
    /\ xReturn' = r.ret

(***************************************************************************)
(* PTL_Start (ptl_wrapper.c) and PTL_Scheduler_Start (ptl_scheduler.c).    *)
(***************************************************************************)
\* (mutant) PTL_Start without its guard
StartAllowed_Always(initialized) == TRUE

\* the guard of PTL_Start
StartAllowed(initialized) == ~(initialized # TRUE)

\* PTL_Scheduler_Start: create the supervisor, then vTaskStartScheduler, which
\* does not return; createOk is the outcome of xTaskCreate.
PTL_Scheduler_Start(createOk) ==
    IF createOk
    THEN /\ xSupervisor' = [xSupervisor EXCEPT !.state = "created"]
         /\ uxKernelTasks' = uxKernelTasks + 1
         /\ uxHandlesCreated' = uxHandlesCreated + 1
         /\ xSchedulerRunning' = TRUE
         /\ xReturn' = "noreturn"
    ELSE /\ xReturn' = pdFAIL
         /\ UNCHANGED <<xSupervisor, uxKernelTasks, uxHandlesCreated, xSchedulerRunning>>

PTL_Start(createOk) ==
    IF ~StartAllowed(xIsInitialized)
    THEN /\ xReturn' = pdFAIL
         /\ UNCHANGED <<xSupervisor, uxKernelTasks, uxHandlesCreated, xSchedulerRunning>>
    ELSE PTL_Scheduler_Start(createOk)

(***************************************************************************)
(* SpecInit: main() before the scheduler runs.                             *)
(***************************************************************************)
TaskNames == <<"T1", "T2", "T3", "T4", "T5", "T6", "T7", "T8", "T9">>

\* the task configurations main() passes: entry k of an array is a valid
\* task, except entry nullAt, whose entry function is NULL; entry 1 has
\* priority uxFirst, the others priority 1
ArgConfig(k, nullAt, uxFirst) ==
    [pcName |-> TaskNames[k], xPeriod |-> 2, xDeadline |-> k % 2,
     uxPriority |-> IF k = 1 THEN uxFirst ELSE 1,
     pvEntryFunction |-> IF k = nullAt THEN "NULL" ELSE "vJob",
     eOverrunPolicy |-> PTL_POLICY_USE_GLOBAL]

ArgArrays(n) ==
    {NULL} \cup
    { <<[k \in 1..n |-> ArgConfig(k, nullAt, uxFirst)]>> :
        nullAt \in {0, 1, n}, uxFirst \in {1, PTL_SUPERVISOR_PRIORITY} }

ArgCounts == {0, 1, 2, PTL_MAX_TASKS, PTL_MAX_TASKS + 1}

ArgGlobals ==
    {NULL} \cup
    { <<[eOverrunPolicy |-> p, xTracingEnabled |-> t, uxMaxTasks |-> m]>> :
        p \in {PTL_POLICY_KILL}, t \in BOOLEAN,
        m \in {2, PTL_MAX_TASKS + 1} }

\* what PTL_Init is required to accept: the global configuration is present,
\* 0 < n <= min(PTL_MAX_TASKS, uxMaxTasks), every one of the n entries is
\* non-null, not initialised yet (arguments with a non-null task array)
Min(a, b) == IF a < b THEN a ELSE b

InitRequirement(g, a, n, initialized) ==
    /\ g # NULL
    /\ a # NULL
    /\ 0 < n
    /\ n <= Min(PTL_MAX_TASKS, g[1].uxMaxTasks)
    /\ \A k \in 1..n : a[1][k].pvEntryFunction # "NULL"
    /\ ~initialized

\* one record per call of main(): which call, what the state was, and
\* whether the arguments met the requirement
CallRecord(op, g, a, n, failAt) ==
    [op |-> op,
     required |-> IF op = "PTL_Init" THEN InitRequirement(g, a, n, xIsInitialized) ELSE FALSE,
     nullArray |-> (a = NULL),
     createFailed |-> (failAt # 0 /\ failAt <= n) \/ (op = "PTL_Start" /\ failAt # 0),
     wasInitialized |-> xIsInitialized]

\* history kept for the properties:
\*   initPassed   a PTL_Init call has returned pdPASS
\*   given        the task configurations as the application passed them
\*   releases     per task, the number of RELEASE transitions (the number of
\*                the task's current job)
\*   lastRelTick  per task, the tick at which the last RELEASE was emitted
\*   lastRelSched per task, xNextReleaseTime when the last RELEASE was emitted
\*   jobMisses    per task, the deadline misses recorded since its last RELEASE
\*   wjob         per task, the job its wrapper took the notification of
\*   skipTick, skipCR, skipNext
\*                per task, the tick of the last SKIP with xCurrentReleaseTime
\*                and xNextReleaseTime as they were before it (skipTick 0: none)
\*   pass         the records the supervisor wrote in its last pass
\*   killedJob    per task, the number of the last job deleted by KILL
\*   fatal        the re-creation of a wrapper has failed
\*   written      the records written to the ring since PTL_TraceInit
\*                (kept in SpecTrace only)
NoHistory ==
    [initPassed |-> FALSE,
     given |-> <<>>,
     releases |-> [i \in 1..PTL_MAX_TASKS |-> 0],
     lastRelTick |-> [i \in 1..PTL_MAX_TASKS |-> 0],
     lastRelSched |-> [i \in 1..PTL_MAX_TASKS |-> 0],
     jobMisses |-> [i \in 1..PTL_MAX_TASKS |-> 0],
     wjob |-> [i \in 1..PTL_MAX_TASKS |-> 0],
     skipTick |-> [i \in 1..PTL_MAX_TASKS |-> 0],
     skipCR |-> [i \in 1..PTL_MAX_TASKS |-> 0],
     skipNext |-> [i \in 1..PTL_MAX_TASKS |-> 0],
     pass |-> <<>>,
     killedJob |-> [i \in 1..PTL_MAX_TASKS |-> 0],
     fatal |-> FALSE,
     written |-> <<>>]

NoCall == [op |-> "none", required |-> FALSE, nullArray |-> FALSE,
           createFailed |-> FALSE, wasInitialized |-> FALSE]

InitStatics ==
    /\ xTaskPool = [i \in 1..PTL_MAX_TASKS |-> ZeroTaskObj]
    /\ uxRegisteredTaskCount = 0
    /\ xIsInitialized = FALSE
    /\ eGlobalPolicy = PTL_POLICY_SKIP
    /\ xTracingEnabled = FALSE
    /\ uxMaxTasksAllowed = 0
    /\ xTraceBuffer = [k \in 0..(PTL_TRACE_BUFFER_SIZE - 1) |-> ZeroRecord]
    /\ ulWriteIndex = 0
    /\ xBufferWrapped = FALSE
    /\ xIdleTimeTotal = 0
    /\ xLastIdleEntry = 0
    /\ xTickCount = 0
    /\ uxKernelTasks = 0
    /\ uxHandlesCreated = 0
    /\ xSchedulerRunning = FALSE
    /\ xWrappers = [i \in 1..PTL_MAX_TASKS |-> NoWrapper]
    /\ xSupervisor = [state |-> "none", xLastWakeTime |-> 0, xSystemStartTime |-> 0]
    /\ uxCalls = 0
    /\ xLastCall = NoCall
    /\ xReturn = "none"
    /\ xHistory = NoHistory

MainCanCall == ~xSchedulerRunning /\ uxCalls < MaxCalls

\* main() calls PTL_Init
CallInit ==
    /\ MainCanCall
    /\ \E g \in ArgGlobals, n \in ArgCounts :
       \E a \in ArgArrays(n), failAt \in {0, 1, n} :
          /\ ApplyInitResult(PTL_InitResult(g, a, n, failAt))
          /\ xLastCall' = CallRecord("PTL_Init", g, a, n, failAt)
    /\ uxCalls' = uxCalls + 1
    /\ xHistory' = [xHistory EXCEPT !.initPassed = @ \/ (xReturn' = pdPASS)]
    /\ UNCHANGED <<xTickCount, xSchedulerRunning, xSupervisor>>

\* main() calls PTL_Start
CallStart ==
    /\ MainCanCall
    /\ \E createOk \in BOOLEAN :
          /\ PTL_Start(createOk)
          /\ xLastCall' = CallRecord("PTL_Start", NULL, NULL, 0, IF createOk THEN 0 ELSE 1)
    /\ uxCalls' = uxCalls + 1
    /\ UNCHANGED <<ptlVars, traceVars, xTickCount, xWrappers, xHistory>>

\* main() (or a hook it wires) writes a record before initialisation
CallLogEvent ==
    /\ MainCanCall
    /\ SetTrace(PTL_LogEvent(TraceState, "MAIN", PTL_EVENT_SWITCH_IN, xTickCount))
    /\ xLastCall' = CallRecord("PTL_LogEvent", NULL, NULL, 0, 0)
    /\ uxCalls' = uxCalls + 1
    /\ UNCHANGED <<ptlVars, xTickCount, uxKernelTasks, uxHandlesCreated,
                   xSchedulerRunning, xWrappers, xSupervisor, xReturn, xHistory>>

NextInit == CallInit \/ CallStart \/ CallLogEvent

SpecInit == InitStatics /\ [][NextInit]_vars

(***************************************************************************)
(* The supervisor (ptl_scheduler.c).  A pass works on a record st of what  *)
(* it reads and writes: pool, trace, wrappers, tasks, handles, hist,       *)
(* halted.                                                                 *)
(***************************************************************************)
\* (mutant) an effective policy that ignores the task's own policy
PTL_GetEffectivePolicy_GlobalOnly(pxTask, globalPolicy) == globalPolicy

\* PTL_GetEffectivePolicy (ptl_wrapper.c)
PTL_GetEffectivePolicy(pxTask, globalPolicy) ==
    IF pxTask = NULL
    THEN globalPolicy
    ELSE IF pxTask.xConfig.eOverrunPolicy # PTL_POLICY_USE_GLOBAL
         THEN pxTask.xConfig.eOverrunPolicy
         ELSE globalPolicy

\* the supervisor writes a record: PTL_LogEvent, not guarded by xTracingEnabled
SupLog(st, i, eType, xNow) ==
    [st EXCEPT
        !.trace = PTL_LogEvent(@, st.pool[i].xConfig.pcName, eType, xNow),
        !.hist.pass = Append(@, [task |-> i, eEvent |-> eType, xTimestamp |-> xNow])]

\* xTaskNotifyGive
NotifyGive(st, i) == [st EXCEPT !.wrappers[i].ulNotifiedValue = @ + 1]

\* history of a RELEASE transition of task i
NoteRelease(st, i, xNow) ==
    [st EXCEPT !.hist.releases[i] = @ + 1,
               !.hist.lastRelTick[i] = xNow,
               !.hist.lastRelSched[i] = st.pool[i].xNextReleaseTime,
               !.hist.jobMisses[i] = 0]

\* the deadline test of the surveillance
DeadlineExpired(xNow, xDeadlineAbs) == xNow >= xDeadlineAbs

\* deadline surveillance of task i
PhaseA(st, i, xNow) ==
    LET pxTask == st.pool[i]
        xDeadlineAbs == pxTask.xCurrentReleaseTime + pxTask.xConfig.xDeadline
    IN  IF /\ DeadlineExpired(xNow, xDeadlineAbs)
           /\ pxTask.xIsActive = TRUE
           /\ pxTask.xDeadlineMissed = FALSE
        THEN SupLog([st EXCEPT !.pool[i].ulDeadlineMisses = @ + 1,
                               !.pool[i].xDeadlineMissed = TRUE,
                               !.hist.jobMisses[i] = @ + 1],
                    i, PTL_EVENT_DEADLINE_MISS, xNow)
        ELSE st

\* (mutant) the current release time taken from the period instead
AdvanceRelease_ByPeriod(st, i) ==
    [st EXCEPT !.pool[i].xCurrentReleaseTime = @ + st.pool[i].xConfig.xPeriod,
               !.pool[i].xNextReleaseTime = @ + st.pool[i].xConfig.xPeriod]

\* (mutant) the current release time set to the advanced next release time
AdvanceRelease_Ahead(st, i) ==
    [st EXCEPT !.pool[i].xCurrentReleaseTime =
                   st.pool[i].xNextReleaseTime + st.pool[i].xConfig.xPeriod,
               !.pool[i].xNextReleaseTime = @ + st.pool[i].xConfig.xPeriod]

\* xCurrentReleaseTime = xNextReleaseTime; xNextReleaseTime += xPeriod
AdvanceRelease(st, i) ==
    [st EXCEPT !.pool[i].xCurrentReleaseTime = st.pool[i].xNextReleaseTime,
               !.pool[i].xNextReleaseTime = @ + st.pool[i].xConfig.xPeriod]

\* (mutant) SKIP that also notifies the wrapper
ApplyPolicy_Skip_Notifying(st, i, xNow) ==
    NotifyGive(
        [SupLog([st EXCEPT !.pool[i].ulOverrunSkips = @ + 1,
                           !.hist.skipTick[i] = xNow,
                           !.hist.skipCR[i] = st.pool[i].xCurrentReleaseTime,
                           !.hist.skipNext[i] = st.pool[i].xNextReleaseTime],
                i, PTL_EVENT_OVERRUN_SKIP, xNow)
         EXCEPT !.pool[i].xNextReleaseTime = @ + st.pool[i].xConfig.xPeriod], i)

\* (mutant) SKIP that leaves the next release time where it is
ApplyPolicy_Skip_NoAdvance(st, i, xNow) ==
    SupLog([st EXCEPT !.pool[i].ulOverrunSkips = @ + 1,
                      !.hist.skipTick[i] = xNow,
                      !.hist.skipCR[i] = st.pool[i].xCurrentReleaseTime,
                      !.hist.skipNext[i] = st.pool[i].xNextReleaseTime],
           i, PTL_EVENT_OVERRUN_SKIP, xNow)

\* case PTL_POLICY_SKIP
ApplyPolicy_Skip(st, i, xNow) ==
    [SupLog([st EXCEPT !.pool[i].ulOverrunSkips = @ + 1,
                       !.hist.skipTick[i] = xNow,
                       !.hist.skipCR[i] = st.pool[i].xCurrentReleaseTime,
                       !.hist.skipNext[i] = st.pool[i].xNextReleaseTime],
            i, PTL_EVENT_OVERRUN_SKIP, xNow)
     EXCEPT !.pool[i].xNextReleaseTime = @ + st.pool[i].xConfig.xPeriod]

\* (mutant) CATCH_UP that logs the RELEASE first
ApplyPolicy_CatchUp_ReleaseFirst(st, i, xNow) ==
    LET counted == [st EXCEPT !.pool[i].ulOverrunCatchUps = @ + 1]
        logged == SupLog(SupLog(counted, i, PTL_EVENT_RELEASE, xNow),
                         i, PTL_EVENT_OVERRUN_CATCHUP, xNow)
    IN  NotifyGive(AdvanceRelease(NoteRelease(logged, i, xNow), i), i)

\* (mutant) CATCH_UP that counts and logs the overrun but releases nothing
ApplyPolicy_CatchUp_NoRelease(st, i, xNow) ==
    [SupLog([st EXCEPT !.pool[i].ulOverrunCatchUps = @ + 1],
            i, PTL_EVENT_OVERRUN_CATCHUP, xNow)
     EXCEPT !.pool[i].xNextReleaseTime = @ + st.pool[i].xConfig.xPeriod]

\* case PTL_POLICY_CATCH_UP
ApplyPolicy_CatchUp(st, i, xNow) ==
    LET counted == [st EXCEPT !.pool[i].ulOverrunCatchUps = @ + 1]
        logged == SupLog(SupLog(counted, i, PTL_EVENT_OVERRUN_CATCHUP, xNow),
                         i, PTL_EVENT_RELEASE, xNow)
    IN  NotifyGive(AdvanceRelease(NoteRelease(logged, i, xNow), i), i)

\* (mutant) KILL that leaves the old wrapper task in place
prvApplyPolicy_Kill_NoDelete(st, i, createOk) ==
    [st EXCEPT !.pool[i].xIsActive = FALSE, !.pool[i].xDeadlineMissed = FALSE]

\* (mutant) KILL that re-initialises the whole slot, counters included
prvApplyPolicy_Kill_ResetSlot(st, i, createOk) ==
    LET deleted == [st EXCEPT !.wrappers[i] = NoWrapper,
                              !.tasks = @ - 1,
                              !.pool[i].xIsActive = FALSE,
                              !.pool[i].xDeadlineMissed = FALSE,
                              !.pool[i].ulJobsCompleted = 0,
                              !.pool[i].ulDeadlineMisses = 0]
    IN  IF createOk
        THEN [deleted EXCEPT !.wrappers[i] = FreshWrapper,
                             !.tasks = @ + 1,
                             !.handles = @ + 1,
                             !.pool[i].xTaskHandle = deleted.handles + 1,
                             !.hist.wjob[i] = 0]
        ELSE [deleted EXCEPT !.halted = TRUE, !.hist.fatal = TRUE]

\* (mutant) KILL whose fatal branch returns instead of spinning
prvApplyPolicy_Kill_NoHalt(st, i, createOk) ==
    LET deleted == [st EXCEPT !.wrappers[i] = NoWrapper,
                              !.tasks = @ - 1,
                              !.pool[i].xIsActive = FALSE,
                              !.pool[i].xDeadlineMissed = FALSE]
    IN  IF createOk
        THEN [deleted EXCEPT !.wrappers[i] = FreshWrapper,
                             !.tasks = @ + 1,
                             !.handles = @ + 1,
                             !.pool[i].xTaskHandle = deleted.handles + 1,
                             !.hist.wjob[i] = 0]
        ELSE [deleted EXCEPT !.hist.fatal = TRUE]

\* prvApplyPolicy_Kill: vTaskDelete, reset, xTaskCreate; when the creation
\* fails the supervisor spins for ever (halted) and the handle is left as it was
prvApplyPolicy_Kill(st, i, createOk) ==
    LET deleted == [st EXCEPT !.wrappers[i] = NoWrapper,
                              !.tasks = @ - 1,
                              !.pool[i].xIsActive = FALSE,
                              !.pool[i].xDeadlineMissed = FALSE]
    IN  IF createOk
        THEN [deleted EXCEPT !.wrappers[i] = FreshWrapper,
                             !.tasks = @ + 1,
                             !.handles = @ + 1,
                             !.pool[i].xTaskHandle = deleted.handles + 1,
                             !.hist.wjob[i] = 0]
        ELSE [deleted EXCEPT !.halted = TRUE, !.hist.fatal = TRUE]

\* case PTL_POLICY_KILL
ApplyPolicy_Kill(st, i, xNow, createOk) ==
    LET counted == [st EXCEPT !.pool[i].ulOverrunKills = @ + 1,
                              !.hist.killedJob[i] = st.hist.releases[i]]
        logged == SupLog(SupLog(counted, i, PTL_EVENT_OVERRUN_KILL, xNow),
                         i, PTL_EVENT_RELEASE, xNow)
        killed == prvApplyPolicy_Kill(NoteRelease(logged, i, xNow), i, createOk)
    IN  IF killed.halted
        THEN killed
        ELSE NotifyGive(AdvanceRelease(killed, i), i)

\* "Release the task normally"
ReleaseNormally(st, i, xNow) ==
    NotifyGive(
        AdvanceRelease(NoteRelease(SupLog(st, i, PTL_EVENT_RELEASE, xNow), i, xNow), i),
        i)

\* the release test
ReleaseDue(xNow, xNextReleaseTime) == xNow >= xNextReleaseTime

\* "Reset the deadline flag for the NEXT job"
ClearLatch(st, i) == [st EXCEPT !.pool[i].xDeadlineMissed = FALSE]

\* release decision of task i
PhaseB(st, i, xNow, globalPolicy, createOk) ==
    IF ReleaseDue(xNow, st.pool[i].xNextReleaseTime)
    THEN LET xTaskIsStillRunning == st.pool[i].xIsActive
             cleared == ClearLatch(st, i)
             policy == PTL_GetEffectivePolicy(st.pool[i], globalPolicy)
         IN  IF xTaskIsStillRunning = TRUE
             THEN CASE policy = PTL_POLICY_SKIP -> ApplyPolicy_Skip(cleared, i, xNow)
                    [] policy = PTL_POLICY_CATCH_UP -> ApplyPolicy_CatchUp(cleared, i, xNow)
                    [] policy = PTL_POLICY_KILL -> ApplyPolicy_Kill(cleared, i, xNow, createOk)
                    [] OTHER -> cleared
             ELSE ReleaseNormally(cleared, i, xNow)
    ELSE st

\* (mutant) a loop body that decides the release before it checks the deadline
RECURSIVE SupervisorPass_ReleaseFirst(_, _, _, _, _, _)
SupervisorPass_ReleaseFirst(st, i, uxTaskCount, xNow, globalPolicy, createOk) ==
    IF i > uxTaskCount \/ st.halted
    THEN st
    ELSE SupervisorPass_ReleaseFirst(
             PhaseA(PhaseB(st, i, xNow, globalPolicy, createOk), i, xNow),
             i + 1, uxTaskCount, xNow, globalPolicy, createOk)

\* the body of the supervisor's loop over the tasks, from task i on; a
\* halted supervisor goes no further
RECURSIVE SupervisorPass(_, _, _, _, _, _)
SupervisorPass(st, i, uxTaskCount, xNow, globalPolicy, createOk) ==
    IF i > uxTaskCount \/ st.halted
    THEN st
    ELSE SupervisorPass(PhaseB(PhaseA(st, i, xNow), i, xNow, globalPolicy, createOk),
                        i + 1, uxTaskCount, xNow, globalPolicy, createOk)

\* what a pass starts from
PassState ==
    [pool |-> xTaskPool, trace |-> TraceState, wrappers |-> xWrappers,
     tasks |-> uxKernelTasks, handles |-> uxHandlesCreated,
     hist |-> [xHistory EXCEPT !.pass = <<>>], halted |-> FALSE]

ApplyPass(st) ==
    /\ xTaskPool' = st.pool
    /\ SetTrace(st.trace)
    /\ xWrappers' = st.wrappers
    /\ uxKernelTasks' = st.tasks
    /\ uxHandlesCreated' = st.handles
    /\ xHistory' = st.hist

(***************************************************************************)
(* The supervisor task: start-up and one pass per tick.  The supervisor    *)
(* has the highest priority and a pass takes less than a tick, so a pass   *)
(* is one step taken at the tick that wakes it.                            *)
(***************************************************************************)
\* (mutant) no alignment: xNextReleaseTime left at the zero PTL_Init stored
AlignRelease_None(xSystemStartTime) == 0

\* (mutant) alignment one supervisor period after the start time
AlignRelease_NextPeriod(xSystemStartTime) == xSystemStartTime + xSupervisorPeriod

\* "Alignment at system start time"
AlignRelease(xSystemStartTime) == xSystemStartTime

\* Burn_Calibrate busy-waits CalibTicks ticks at the highest priority, then
\* the supervisor reads the tick count and aligns every task to it
SupervisorBoot ==
    /\ xSupervisor.state = "created"
    /\ xTickCount' = xTickCount + CalibTicks
    /\ xSupervisor' = [state |-> "running", xLastWakeTime |-> xTickCount',
                       xSystemStartTime |-> xTickCount']
    /\ xTaskPool' = [i \in 1..PTL_MAX_TASKS |->
                        IF i <= uxRegisteredTaskCount
                        THEN [xTaskPool[i] EXCEPT
                                 !.xNextReleaseTime = AlignRelease(xTickCount')]
                        ELSE xTaskPool[i]]
    /\ UNCHANGED <<uxRegisteredTaskCount, xIsInitialized, eGlobalPolicy,
                   xTracingEnabled, uxMaxTasksAllowed, traceVars, uxKernelTasks,
                   uxHandlesCreated, xSchedulerRunning, xWrappers, uxCalls,
                   xLastCall, xReturn, xHistory>>

\* the tick interrupt; it wakes the supervisor (vTaskDelayUntil with a period
\* of one tick), which makes its pass unless it is spinning in the fatal loop
Tick ==
    /\ xSupervisor.state \in {"running", "halted"}
    /\ xTickCount < MaxTick
    /\ xTickCount' = xTickCount + 1
    /\ IF /\ xSupervisor.state = "running"
          /\ xTickCount' >= xSupervisor.xLastWakeTime + xSupervisorPeriod
       THEN \E createOk \in BOOLEAN :
               LET st == SupervisorPass(PassState, 1, uxRegisteredTaskCount,
                                        xTickCount', eGlobalPolicy, createOk)
               IN  /\ ApplyPass(st)
                   /\ xSupervisor' =
                        [xSupervisor EXCEPT
                            !.state = IF st.halted THEN "halted" ELSE @,
                            !.xLastWakeTime = @ + xSupervisorPeriod]
       ELSE UNCHANGED <<xTaskPool, traceVars, xWrappers, uxKernelTasks,
                        uxHandlesCreated, xHistory, xSupervisor>>
    /\ UNCHANGED <<uxRegisteredTaskCount, xIsInitialized, eGlobalPolicy,
                   xTracingEnabled, uxMaxTasksAllowed, xSchedulerRunning,
                   uxCalls, xLastCall, xReturn>>

(***************************************************************************)
(* PTL_GenericWrapper (ptl_wrapper.c), one step per access to shared data. *)
(* A wrapper runs when the supervisor is blocked and no wrapper of higher  *)
(* priority is ready; a job body may block, so a wrapper inside its body   *)
(* does not keep the others from running.                                  *)
(***************************************************************************)
\* (mutant) a wrapper that does not wait for its notification
Ready_Unnotified(w) == w.pc # "none"

\* a wrapper is ready unless it waits in ulTaskNotifyTake with nothing pending
Ready(w) == w.pc # "none" /\ ~(w.pc = "take" /\ w.ulNotifiedValue = 0)

MayRun(i) ==
    /\ xSupervisor.state = "running"
    /\ i \in 1..uxRegisteredTaskCount
    /\ Ready(xWrappers[i])
    /\ \A j \in 1..uxRegisteredTaskCount :
          (j # i /\ Ready(xWrappers[j]) /\ xWrappers[j].pc # "body")
             => xTaskPool[j].xConfig.uxPriority <= xTaskPool[i].xConfig.uxPriority

\* what a wrapper step leaves alone besides the statics it names
WrapperFrame ==
    UNCHANGED <<uxRegisteredTaskCount, xIsInitialized, eGlobalPolicy,
                xTracingEnabled, uxMaxTasksAllowed, xTickCount, uxKernelTasks,
                uxHandlesCreated, xSchedulerRunning, xSupervisor, uxCalls,
                xLastCall, xReturn>>

Goto(i, pc) == xWrappers' = [xWrappers EXCEPT ![i].pc = pc]

\* if (xTracingEnabled) PTL_LogEvent(...)
WrapperLog(i, eType, xTime) ==
    IF xTracingEnabled
    THEN SetTrace(PTL_LogEvent(TraceState, xTaskPool[i].xConfig.pcName, eType, xTime))
    ELSE UNCHANGED traceVars

\* "Effective deadline: if D=0, use T."
WrapperEntry(i) ==
    /\ MayRun(i) /\ xWrappers[i].pc = "entry"
    /\ xWrappers' = [xWrappers EXCEPT
          ![i].pc = "take",
          ![i].xEffectiveDeadline =
              IF xTaskPool[i].xConfig.xDeadline > 0
              THEN xTaskPool[i].xConfig.xDeadline
              ELSE xTaskPool[i].xConfig.xPeriod]
    /\ WrapperFrame /\ UNCHANGED <<xTaskPool, traceVars, xHistory>>

\* ulTaskNotifyTake(pdTRUE, portMAX_DELAY) returns: the value is cleared
WrapperTake(i) ==
    /\ MayRun(i) /\ xWrappers[i].pc = "take"
    /\ xWrappers' = [xWrappers EXCEPT ![i].pc = "setActive",
                                      ![i].ulNotifiedValue = 0]
    /\ xHistory' = [xHistory EXCEPT !.wjob[i] = xHistory.releases[i]]
    /\ WrapperFrame /\ UNCHANGED <<xTaskPool, traceVars>>

\* pxTask->xIsActive = pdTRUE
WrapperSetActive(i) ==
    /\ MayRun(i) /\ xWrappers[i].pc = "setActive"
    /\ xTaskPool' = [xTaskPool EXCEPT ![i].xIsActive = TRUE]
    /\ Goto(i, "stampStart")
    /\ WrapperFrame /\ UNCHANGED <<traceVars, xHistory>>

\* xJobStartTime = xTaskGetTickCount()
WrapperStampStart(i) ==
    /\ MayRun(i) /\ xWrappers[i].pc = "stampStart"
    /\ xWrappers' = [xWrappers EXCEPT ![i].pc = "logStart",
                                      ![i].xJobStartTime = xTickCount]
    /\ WrapperFrame /\ UNCHANGED <<xTaskPool, traceVars, xHistory>>

WrapperLogStart(i) ==
    /\ MayRun(i) /\ xWrappers[i].pc = "logStart"
    /\ WrapperLog(i, PTL_EVENT_START, xWrappers[i].xJobStartTime)
    /\ Goto(i, "body")
    /\ WrapperFrame /\ UNCHANGED <<xTaskPool, xHistory>>

\* the job body returns, after any time, and the finish time is read
WrapperBodyDone(i) ==
    /\ MayRun(i) /\ xWrappers[i].pc = "body"
    /\ xWrappers' = [xWrappers EXCEPT ![i].pc = "logComplete",
                                      ![i].xJobEndTime = xTickCount]
    /\ WrapperFrame /\ UNCHANGED <<xTaskPool, traceVars, xHistory>>

WrapperLogComplete(i) ==
    /\ MayRun(i) /\ xWrappers[i].pc = "logComplete"
    /\ WrapperLog(i, PTL_EVENT_COMPLETE, xWrappers[i].xJobEndTime)
    /\ Goto(i, "check")
    /\ WrapperFrame /\ UNCHANGED <<xTaskPool, xHistory>>

\* xAbsoluteDeadline = xCurrentReleaseTime + xEffectiveDeadline, and the test
WrapperCheck(i) ==
    /\ MayRun(i) /\ xWrappers[i].pc = "check"
    /\ LET xAbsoluteDeadline ==
               xTaskPool[i].xCurrentReleaseTime + xWrappers[i].xEffectiveDeadline
       IN  Goto(i, IF xWrappers[i].xJobEndTime > xAbsoluteDeadline
                   THEN "latch" ELSE "clearActive")
    /\ WrapperFrame /\ UNCHANGED <<xTaskPool, traceVars, xHistory>>

\* pxTask->xDeadlineMissed = pdTRUE
WrapperLatch(i) ==
    /\ MayRun(i) /\ xWrappers[i].pc = "latch"
    /\ xTaskPool' = [xTaskPool EXCEPT ![i].xDeadlineMissed = TRUE]
    /\ Goto(i, "missLoad")
    /\ WrapperFrame /\ UNCHANGED <<traceVars, xHistory>>

\* pxTask->ulDeadlineMisses++ : the load
WrapperMissLoad(i) ==
    /\ MayRun(i) /\ xWrappers[i].pc = "missLoad"
    /\ xWrappers' = [xWrappers EXCEPT ![i].pc = "missStore",
                                      ![i].ulLoaded = xTaskPool[i].ulDeadlineMisses]
    /\ WrapperFrame /\ UNCHANGED <<xTaskPool, traceVars, xHistory>>

\* pxTask->ulDeadlineMisses++ : the store
WrapperMissStore(i) ==
    /\ MayRun(i) /\ xWrappers[i].pc = "missStore"
    /\ xTaskPool' = [xTaskPool EXCEPT ![i].ulDeadlineMisses = xWrappers[i].ulLoaded + 1]
    /\ xWrappers' = [xWrappers EXCEPT ![i].pc = "logMiss", ![i].ulLoaded = 0]
    /\ xHistory' = [xHistory EXCEPT
          !.jobMisses[i] = IF xHistory.wjob[i] = xHistory.releases[i] THEN @ + 1 ELSE @]
    /\ WrapperFrame /\ UNCHANGED traceVars

WrapperLogMiss(i) ==
    /\ MayRun(i) /\ xWrappers[i].pc = "logMiss"
    /\ WrapperLog(i, PTL_EVENT_DEADLINE_MISS, xWrappers[i].xJobEndTime)
    /\ Goto(i, "clearActive")
    /\ WrapperFrame /\ UNCHANGED <<xTaskPool, xHistory>>

\* pxTask->xIsActive = pdFALSE
WrapperClearActive(i) ==
    /\ MayRun(i) /\ xWrappers[i].pc = "clearActive"
    /\ xTaskPool' = [xTaskPool EXCEPT ![i].xIsActive = FALSE]
    /\ Goto(i, "incJobs")
    /\ WrapperFrame /\ UNCHANGED <<traceVars, xHistory>>

\* pxTask->ulJobsCompleted++ (only this task writes the counter)
WrapperIncJobs(i) ==
    /\ MayRun(i) /\ xWrappers[i].pc = "incJobs"
    /\ xTaskPool' = [xTaskPool EXCEPT ![i].ulJobsCompleted = @ + 1]
    /\ Goto(i, "take")
    /\ WrapperFrame /\ UNCHANGED <<traceVars, xHistory>>

(***************************************************************************)
(* Spec: the running system, from the state PTL_Init and PTL_Start leave.  *)
(***************************************************************************)
\* the statics before main() runs
BootStatics ==
    [pool |-> [i \in 1..PTL_MAX_TASKS |-> ZeroTaskObj],
     wrappers |-> [i \in 1..PTL_MAX_TASKS |-> NoWrapper],
     tasks |-> 0, handles |-> 0, ret |-> pdFAIL, count |-> 0, init |-> FALSE,
     policy |-> PTL_POLICY_SKIP, tracing |-> FALSE, maxTasks |-> 0,
     trace |-> [buf |-> [k \in 0..(PTL_TRACE_BUFFER_SIZE - 1) |-> ZeroRecord],
                ulWriteIndex |-> 0, xBufferWrapped |-> FALSE,
                xIdleTimeTotal |-> 0, xLastIdleEntry |-> 0]]

\* the configurations the application runs with: the first task has the
\* higher priority, the longest period and any deadline up to its period
\* (0: use the period); the others are released every tick
RunConfig(k, d) ==
    [pcName |-> TaskNames[k], xPeriod |-> IF k = 1 THEN MaxPeriod ELSE 1,
     xDeadline |-> IF k = 1 THEN d ELSE 0,
     uxPriority |-> IF k = 1 THEN 2 ELSE 1,
     pvEntryFunction |-> "vJob", eOverrunPolicy |-> PTL_POLICY_USE_GLOBAL]

RunArrays == { [k \in 1..NumTasks |-> RunConfig(k, d)] : d \in 0..MaxPeriod }

RunGlobals ==
    { [eOverrunPolicy |-> p, xTracingEnabled |-> TRUE, uxMaxTasks |-> NumTasks] :
        p \in {PTL_POLICY_SKIP, PTL_POLICY_KILL, PTL_POLICY_CATCH_UP} }

\* the state when the supervisor task has been created: PTL_Init has
\* succeeded on one of the given configurations and PTL_Start has started
\* the scheduler
RunInitWith(globals, arrays) ==
    \E g \in globals, a \in arrays :
       LET r == InitOutcome(BootStatics, <<g>>, <<a>>, Len(a), 0)
       IN  /\ xTaskPool = r.pool
           /\ uxRegisteredTaskCount = r.count
           /\ xIsInitialized = r.init
           /\ eGlobalPolicy = r.policy
           /\ xTracingEnabled = r.tracing
           /\ uxMaxTasksAllowed = r.maxTasks
           /\ xTraceBuffer = r.trace.buf
           /\ ulWriteIndex = r.trace.ulWriteIndex
           /\ xBufferWrapped = r.trace.xBufferWrapped
           /\ xIdleTimeTotal = r.trace.xIdleTimeTotal
           /\ xLastIdleEntry = r.trace.xLastIdleEntry
           /\ xTickCount = 0
           /\ uxKernelTasks = r.tasks + 1
           /\ uxHandlesCreated = r.handles + 1
           /\ xSchedulerRunning = TRUE
           /\ xWrappers = r.wrappers
           /\ xSupervisor = [state |-> "created", xLastWakeTime |-> 0,
                             xSystemStartTime |-> 0]
           /\ uxCalls = 2
           /\ xLastCall = NoCall
           /\ xReturn = "noreturn"
           /\ xHistory = [NoHistory EXCEPT !.initPassed = (r.ret = pdPASS),
                                           !.given = a]

RunInit == RunInitWith(RunGlobals, RunArrays)

WrapperStep(i) ==
    \/ WrapperEntry(i)
    \/ WrapperTake(i)
    \/ WrapperSetActive(i)
    \/ WrapperStampStart(i)
    \/ WrapperLogStart(i)
    \/ WrapperBodyDone(i)
    \/ WrapperLogComplete(i)
    \/ WrapperCheck(i)
    \/ WrapperLatch(i)
    \/ WrapperMissLoad(i)
    \/ WrapperMissStore(i)
    \/ WrapperLogMiss(i)
    \/ WrapperClearActive(i)
    \/ WrapperIncJobs(i)

Next ==
    \/ SupervisorBoot
    \/ Tick
    \/ \E i \in 1..NumTasks : WrapperStep(i)

Spec == RunInit /\ [][Next]_vars

\* the same system under every policy configuration a successful PTL_Init
\* stores (SpecConfig): PTL_Init copies the global policy, the tracing flag
\* and the per-task policies as given, USE_GLOBAL included
ConfigArrays ==
    { [k \in 1..NumTasks |->
          [RunConfig(k, 0) EXCEPT !.eOverrunPolicy =
              IF k = 1 THEN p ELSE PTL_POLICY_USE_GLOBAL]] :
        p \in {PTL_POLICY_USE_GLOBAL, PTL_POLICY_SKIP, PTL_POLICY_KILL,
               PTL_POLICY_CATCH_UP} }

ConfigGlobals ==
    { [eOverrunPolicy |-> p, xTracingEnabled |-> t, uxMaxTasks |-> NumTasks] :
        p \in {PTL_POLICY_USE_GLOBAL, PTL_POLICY_SKIP, PTL_POLICY_KILL,
               PTL_POLICY_CATCH_UP},
        t \in BOOLEAN }

ConfigInit == RunInitWith(ConfigGlobals, ConfigArrays)

SpecConfig == ConfigInit /\ [][Next]_vars

\* a single task with a period of more than MaxPeriod ticks and a deadline
\* shorter than the period, under each of the three policies (SpecSolo)
SoloArrays ==
    { << [RunConfig(1, d) EXCEPT !.xPeriod = MaxPeriod + 1] >> : d \in 1..MaxPeriod }

SoloInit == RunInitWith(RunGlobals, SoloArrays)

SpecSolo == SoloInit /\ [][Next]_vars

(***************************************************************************)
(* SpecTrace: the trace ring on its own.  Writers log records and the      *)
(* idle hooks run in turn, as the context-switch hook calls them (entry    *)
(* when the idle task is switched in, exit when it is switched out); a     *)
(* reader takes statistics.  xHistory.written is the sequence of records  *)
(* written since PTL_TraceInit, uxCalls the number of statistics calls     *)
(* since the last write.                                                   *)
(***************************************************************************)
\* a ring left over from an earlier run: full of old records, index mid-way
StaleRing ==
    [buf |-> [k \in 0..(PTL_TRACE_BUFFER_SIZE - 1) |->
                 [pcTaskName |-> "OLD", eEvent |-> PTL_EVENT_COMPLETE, xTimestamp |-> k]],
     ulWriteIndex |-> 3, xBufferWrapped |-> TRUE,
     xIdleTimeTotal |-> 2, xLastIdleEntry |-> 1]

TraceStart ==
    /\ \E tr \in {BootStatics.trace, StaleRing} :
          /\ xTraceBuffer = PTL_TraceInit(tr).buf
          /\ ulWriteIndex = PTL_TraceInit(tr).ulWriteIndex
          /\ xBufferWrapped = PTL_TraceInit(tr).xBufferWrapped
          /\ xIdleTimeTotal = PTL_TraceInit(tr).xIdleTimeTotal
          /\ xLastIdleEntry = PTL_TraceInit(tr).xLastIdleEntry
    /\ xTaskPool = BootStatics.pool
    /\ uxRegisteredTaskCount = 0
    /\ xIsInitialized = FALSE
    /\ eGlobalPolicy = PTL_POLICY_SKIP
    /\ xTracingEnabled = TRUE
    /\ uxMaxTasksAllowed = 0
    /\ xTickCount = 0
    /\ uxKernelTasks = 0
    /\ uxHandlesCreated = 0
    /\ xSchedulerRunning = FALSE
    /\ xWrappers = BootStatics.wrappers
    /\ xSupervisor = [state |-> "none", xLastWakeTime |-> 0, xSystemStartTime |-> 0]
    /\ uxCalls = 0
    /\ xLastCall = NoCall
    /\ xReturn = "none"
    /\ xHistory = NoHistory

\* what the trace actions leave alone
TraceFrame ==
    UNCHANGED <<ptlVars, uxKernelTasks, uxHandlesCreated, xSchedulerRunning,
                xWrappers, xSupervisor>>

\* the record PTL_LogEvent stores
TraceRecord(pcTaskName, eType, xTime) ==
    [pcTaskName |-> pcTaskName, eEvent |-> eType, xTimestamp |-> xTime]

Written(tr, rec, op) ==
    /\ SetTrace(tr)
    /\ xHistory' = [xHistory EXCEPT !.written = Append(@, rec)]
    /\ uxCalls' = 0
    /\ xLastCall' = [NoCall EXCEPT !.op = op]
    /\ UNCHANGED xReturn
    /\ TraceFrame

\* the idle task is running: the context-switch hook has called
\* PTL_TrackIdleEntry and not yet PTL_TrackIdleExit
IdleRunning == xLastCall.op = "PTL_TrackIdleEntry"

\* a task logs a record at the next tick, with the tick count it read either
\* just now or before the tick
TraceLogEvent ==
    /\ ~IdleRunning
    /\ Len(xHistory.written) < MaxWrites
    /\ xTickCount' = xTickCount + 1
    /\ \E eType \in {PTL_EVENT_RELEASE, PTL_EVENT_COMPLETE},
          xTime \in {xTickCount, xTickCount'} :
          Written(PTL_LogEvent(TraceState, "T1", eType, xTime),
                  TraceRecord("T1", eType, xTime), "PTL_LogEvent")

\* the idle task is switched in
TraceIdleEntry ==
    /\ ~IdleRunning
    /\ Len(xHistory.written) < MaxWrites
    /\ UNCHANGED xTickCount
    /\ Written(PTL_TrackIdleEntry(TraceState, xTickCount),
               TraceRecord("IDLE", PTL_EVENT_IDLE_START, xTickCount),
               "PTL_TrackIdleEntry")

\* the idle task is switched out, in the same tick or at the next one
TraceIdleExit ==
    /\ IdleRunning
    /\ Len(xHistory.written) < MaxWrites
    /\ xTickCount' \in {xTickCount, xTickCount + 1}
    /\ Written(PTL_TrackIdleExit(TraceState, xTickCount'),
               TraceRecord("IDLE", PTL_EVENT_IDLE_END, xTickCount'),
               "PTL_TrackIdleExit")

\* a task calls PTL_GetTraceStatistics
TraceGetStatistics ==
    /\ ~IdleRunning
    /\ uxCalls < 2
    /\ xReturn' = PTL_GetTraceStatistics(TraceState)
    /\ SetTrace(StatisticsLeave(TraceState))
    /\ uxCalls' = uxCalls + 1
    /\ xLastCall' = [NoCall EXCEPT !.op = "PTL_GetTraceStatistics"]
    /\ UNCHANGED <<xTickCount, xHistory>>
    /\ TraceFrame

NextTrace == TraceLogEvent \/ TraceIdleEntry \/ TraceIdleExit \/ TraceGetStatistics

SpecTrace == TraceStart /\ [][NextTrace]_vars

(***************************************************************************)
(* The readers of the ring, PTL_GetTraceStatistics and PTL_PrintTrace, step *)
(* by step (SpecReader): the snapshot of count and start index is taken    *)
(* inside a critical section, the walk over the records runs outside it,   *)
(* so a task of higher priority can call PTL_LogEvent between two reads.   *)
(***************************************************************************)

\* a reader is between its snapshot and its return
Walking == xLastCall.op \in {"PTL_GetTraceStatistics", "PTL_PrintTrace"}

\* the reader's critical section: ulCount and ulStartIndex (snapshot keeps
\* the readable records of that instant, seen the records read so far)
ReaderSnapshot ==
    /\ ~Walking
    /\ uxCalls < MaxCalls
    /\ \E fn \in {"PTL_GetTraceStatistics", "PTL_PrintTrace"} :
          xLastCall' = [NoCall EXCEPT !.op = fn]
    /\ xReturn' = [ulCount |-> SnapshotCount(TraceState),
                   ulStartIndex |-> SnapshotStart(TraceState),
                   i |-> 0, seen |-> << >>,
                   snapshot |-> Readable(TraceState)]
    /\ uxCalls' = uxCalls + 1
    /\ UNCHANGED <<traceVars, xTickCount, xHistory>>
    /\ TraceFrame

\* one iteration of the reader's loop: it reads xTraceBuffer[ulIdx]
ReaderStep ==
    /\ Walking
    /\ xReturn.i < xReturn.ulCount
    /\ LET ulIdx == (xReturn.ulStartIndex + xReturn.i) % PTL_TRACE_BUFFER_SIZE
       IN  xReturn' = [xReturn EXCEPT !.i = @ + 1,
                                      !.seen = Append(@, xTraceBuffer[ulIdx])]
    /\ UNCHANGED <<traceVars, xTickCount, xHistory, uxCalls, xLastCall>>
    /\ TraceFrame

\* the loop is over: the reader returns
ReaderReturn ==
    /\ Walking
    /\ xReturn.i = xReturn.ulCount
    /\ xLastCall' = NoCall
    /\ UNCHANGED <<traceVars, xTickCount, xHistory, uxCalls, xReturn>>
    /\ TraceFrame

\* a task logs a record at the next tick; when a reader is walking this is a
\* task of higher priority that preempts it
ReaderLogEvent ==
    /\ Len(xHistory.written) < MaxWrites
    /\ xTickCount' = xTickCount + 1
    /\ \E eType \in {PTL_EVENT_RELEASE, PTL_EVENT_COMPLETE} :
          /\ SetTrace(PTL_LogEvent(TraceState, "T1", eType, xTickCount'))
          /\ xHistory' = [xHistory EXCEPT
                !.written = Append(@, TraceRecord("T1", eType, xTickCount'))]
    /\ UNCHANGED <<uxCalls, xLastCall, xReturn>>
    /\ TraceFrame

NextReader == ReaderSnapshot \/ ReaderStep \/ ReaderReturn \/ ReaderLogEvent

SpecReader == TraceStart /\ [][NextReader]_vars

(***************************************************************************)
(* Properties of initialisation (SpecInit).                                *)
(***************************************************************************)
IsInitCall == uxCalls' = uxCalls + 1 /\ xLastCall'.op = "PTL_Init"

\* C1: PTL_Init returns pdPASS if and only if the global configuration is
\* present, 0 < n <= min(PTL_MAX_TASKS, uxMaxTasks), every one of the n
\* entry functions is non-null and PTL is not initialised yet (task array
\* non-null, every xTaskCreate succeeding); in every other case it returns
\* pdFAIL.
C1_InitPassIffRequirement ==
    xLastCall.op = "PTL_Init" =>
        /\ xReturn \in {pdPASS, pdFAIL}
        /\ (~xLastCall.nullArray /\ ~xLastCall.createFailed) =>
               (xReturn = pdPASS <=> xLastCall.required)
        /\ ~xLastCall.required => xReturn = pdFAIL

\* C1 witness: a call with PTL_MAX_TASKS tasks was accepted
C1_Witness ==
    /\ xLastCall.op = "PTL_Init"
    /\ xLastCall.required
    /\ xReturn = pdPASS
    /\ uxRegisteredTaskCount = PTL_MAX_TASKS

\* C2: a PTL_Init call that returns pdFAIL leaves the stored global policy,
\* the tracing flag, the trace ring, the registry slots and the registered
\* count as they were, and creates no wrapper task.
C2_FailedInitChangesNothing ==
    [][ (IsInitCall /\ xReturn' = pdFAIL) =>
            UNCHANGED <<xTaskPool, uxRegisteredTaskCount, eGlobalPolicy,
                        xTracingEnabled, traceVars, uxKernelTasks, xWrappers>> ]_vars

\* C3: once a PTL_Init call has returned pdPASS, every later PTL_Init call
\* returns pdFAIL and leaves the task pool, the registered count, the stored
\* global settings and the trace ring unchanged.
C3_SecondInitRejected ==
    [][ (IsInitCall /\ xHistory.initPassed) =>
            /\ xReturn' = pdFAIL
            /\ UNCHANGED <<ptlVars, traceVars, uxKernelTasks, xWrappers>> ]_vars

\* C3 witness: PTL_Init was called on an initialised system, with arguments
\* that a fresh system accepts
C3_Witness ==
    /\ xLastCall.op = "PTL_Init"
    /\ xLastCall.wasInitialized
    /\ ~xLastCall.nullArray
    /\ xReturn = pdFAIL
    /\ ulWriteIndex > 0

\* C4: PTL_Start without a successful PTL_Init returns pdFAIL, creates no
\* supervisor and does not start the kernel scheduler; after a successful
\* PTL_Init it creates the supervisor and does not return, unless the
\* creation of the supervisor fails.
C4_StartNeedsInit ==
    xLastCall.op = "PTL_Start" =>
        IF ~xHistory.initPassed
        THEN xReturn = pdFAIL /\ xSupervisor.state = "none" /\ ~xSchedulerRunning
        ELSE IF xLastCall.createFailed
        THEN xReturn = pdFAIL /\ xSupervisor.state = "none" /\ ~xSchedulerRunning
        ELSE xReturn = "noreturn" /\ xSupervisor.state = "created" /\ xSchedulerRunning

\* C4 witness: PTL_Start called after a PTL_Init call that failed
C4_Witness ==
    /\ xLastCall.op = "PTL_Start"
    /\ ~xHistory.initPassed
    /\ uxCalls >= 2
    /\ uxKernelTasks > 0
    /\ xReturn = pdFAIL

(***************************************************************************)
(* Properties of the running system (Spec).                                *)
(***************************************************************************)
Tasks == 1..uxRegisteredTaskCount

\* the configuration of task i with an explicit deadline D = T where the
\* application gave D = 0
ExplicitConfig(i) ==
    IF xHistory.given[i].xDeadline = 0
    THEN [xHistory.given[i] EXCEPT !.xDeadline = xHistory.given[i].xPeriod]
    ELSE xHistory.given[i]

\* the global configuration the system was initialised with
StoredGlobal ==
    [eOverrunPolicy |-> eGlobalPolicy, xTracingEnabled |-> xTracingEnabled,
     uxMaxTasks |-> uxMaxTasksAllowed]

\* C5: a system initialised with D = 0 is the system initialised with an
\* explicit D = T: PTL_Init leaves the same statics for both, the stored
\* deadline is T, and the absolute deadline of the supervisor's surveillance
\* and the one of the wrapper's completion check are those of D = T.  (No
\* step of the running system reads the configuration as given, so the two
\* systems take the same steps from the same state.)
C5_ZeroDeadlineIsPeriod ==
    /\ InitOutcome(BootStatics, <<StoredGlobal>>, <<xHistory.given>>, NumTasks, 0)
         = InitOutcome(BootStatics, <<StoredGlobal>>,
                       <<[i \in 1..NumTasks |-> ExplicitConfig(i)]>>, NumTasks, 0)
    /\ \A i \in Tasks :
          /\ xTaskPool[i].xConfig = ExplicitConfig(i)
          /\ xTaskPool[i].xCurrentReleaseTime + xTaskPool[i].xConfig.xDeadline
               = xTaskPool[i].xCurrentReleaseTime + ExplicitConfig(i).xDeadline
          /\ xWrappers[i].pc \notin {"none", "entry"} =>
                xTaskPool[i].xCurrentReleaseTime + xWrappers[i].xEffectiveDeadline
                  = xTaskPool[i].xCurrentReleaseTime + ExplicitConfig(i).xDeadline

\* C5 witness: a task given D = 0 whose job was found late by the supervisor
\* and has then gone through the wrapper's completion check
C5_Witness ==
    \E i \in Tasks :
       /\ xHistory.given[i].xDeadline = 0
       /\ xHistory.given[i].xPeriod = MaxPeriod
       /\ xTaskPool[i].ulDeadlineMisses > 0
       /\ xWrappers[i].pc = "clearActive"

\* C6: every RELEASE the supervisor emits is emitted at most one tick after
\* the scheduled release time of the job, the value xCurrentReleaseTime takes
\* in the same pass (a supervisor that halts in a KILL has emitted the RELEASE
\* and never stores the value).
C6_ReleaseJitterAtMostOneTick ==
    \A i \in Tasks :
       xHistory.releases[i] > 0 =>
          /\ xHistory.lastRelTick[i] - xHistory.lastRelSched[i] \in {0, 1}
          /\ \/ xTaskPool[i].xCurrentReleaseTime = xHistory.lastRelSched[i]
             \/ xSupervisor.state = "halted" /\ xWrappers[i].pc = "none"

\* C6 witness: a release made under CATCH_UP or KILL, at its scheduled tick,
\* after a first release one tick late
C6_Witness ==
    \E i \in Tasks :
       /\ xTaskPool[i].ulOverrunCatchUps + xTaskPool[i].ulOverrunKills > 0
       /\ xSupervisor.state = "running"
       /\ xHistory.releases[i] >= 2
       /\ xHistory.lastRelTick[i] = xTaskPool[i].xCurrentReleaseTime
       /\ xTaskPool[i].xCurrentReleaseTime > xSupervisor.xSystemStartTime

\* wrapper i has completed the task's current job and made its deadline check
CompletedCurrentJob(i) ==
    /\ xWrappers[i].pc = "clearActive"
    /\ xHistory.wjob[i] = xHistory.releases[i]

\* C7: a job whose completion stamp equals its absolute deadline
\* (t_end - current_release = D_eff, not more) has no deadline miss recorded.
C7_NoMissAtDeadline ==
    \A i \in Tasks :
       ( /\ CompletedCurrentJob(i)
         /\ xWrappers[i].xJobEndTime
              = xTaskPool[i].xCurrentReleaseTime + xWrappers[i].xEffectiveDeadline )
       => xHistory.jobMisses[i] = 0

\* C8: the deadline miss of a job is recorded at most once.
C8_MissCountedOncePerJob ==
    \A i \in Tasks : xHistory.jobMisses[i] <= 1

\* C9: xDeadlineMissed goes from true to false only in a step that releases
\* a new job of the task.
C9_LatchClearedOnlyByRelease ==
    [][ \A i \in Tasks :
          (xTaskPool[i].xDeadlineMissed /\ ~xTaskPool'[i].xDeadlineMissed)
             => xHistory'.releases[i] # xHistory.releases[i] ]_vars

\* SKIP was applied to task i in this step
SkipApplied(i) ==
    /\ xTickCount' # xTickCount
    /\ xHistory'.skipTick[i] = xTickCount'

TraceHas(tr, i, eType, xTime) ==
    \E k \in DOMAIN Readable(tr) :
       Readable(tr)[k] = [pcTaskName |-> xTaskPool[i].xConfig.pcName,
                          eEvent |-> eType, xTimestamp |-> xTime]

\* C10: when SKIP is applied to task i at tick t, an OVERRUN_SKIP record with
\* timestamp t is in the trace, no RELEASE record of i has timestamp t, the
\* wrapper's notification value and the current release time are untouched
\* and the next release time advances by one period; a RELEASE of i after a
\* SKIP is emitted no earlier than the skipped job's release time plus T.
C10_SkipLogsAndDefers ==
    [][ \A i \in Tasks :
          /\ SkipApplied(i) =>
                /\ TraceHas(TraceState', i, PTL_EVENT_OVERRUN_SKIP, xTickCount')
                /\ ~TraceHas(TraceState', i, PTL_EVENT_RELEASE, xTickCount')
                /\ \A k \in DOMAIN xHistory'.pass :
                      ~( /\ xHistory'.pass[k].task = i
                         /\ xHistory'.pass[k].eEvent = PTL_EVENT_RELEASE )
                /\ xWrappers'[i].ulNotifiedValue = xWrappers[i].ulNotifiedValue
                /\ xTaskPool'[i].xCurrentReleaseTime = xTaskPool[i].xCurrentReleaseTime
                /\ xTaskPool'[i].xNextReleaseTime
                     = xTaskPool[i].xNextReleaseTime + xTaskPool[i].xConfig.xPeriod
                /\ xTaskPool'[i].ulOverrunSkips = xTaskPool[i].ulOverrunSkips + 1
          /\ (xHistory'.releases[i] # xHistory.releases[i] /\ xHistory.skipTick[i] # 0) =>
                xTickCount' >= xHistory.skipCR[i] + xTaskPool[i].xConfig.xPeriod ]_vars

\* C10 witness: a task was skipped, at a tick after its first release, and
\* released again later
C10_Witness ==
    \E i \in Tasks :
       /\ xTaskPool[i].ulOverrunSkips > 0
       /\ xHistory.skipTick[i] # 0
       /\ xHistory.lastRelTick[i] > xHistory.skipTick[i]
       /\ xHistory.releases[i] >= 2

\* the record that follows position k of the readable range, if any
FollowedBy(tr, k, eType) ==
    /\ k + 1 \in DOMAIN Readable(tr)
    /\ Readable(tr)[k + 1] = [Readable(tr)[k] EXCEPT !.eEvent = eType]

\* C11: every OVERRUN_CATCHUP record in the ring is immediately followed by
\* a RELEASE record of the same task with the same timestamp; no record of
\* another task or of a wrapper lies between the two.
C11_CatchUpThenRelease ==
    \A k \in DOMAIN Readable(TraceState) :
       Readable(TraceState)[k].eEvent = PTL_EVENT_OVERRUN_CATCHUP
          => FollowedBy(TraceState, k, PTL_EVENT_RELEASE)

\* C11 witness: the ring holds the OVERRUN_CATCHUP of a task, then its
\* RELEASE, then a record a wrapper wrote
C11_Witness ==
    \E k \in DOMAIN Readable(TraceState) :
       /\ Readable(TraceState)[k].eEvent = PTL_EVENT_OVERRUN_CATCHUP
       /\ FollowedBy(TraceState, k, PTL_EVENT_RELEASE)
       /\ k + 2 \in DOMAIN Readable(TraceState)
       /\ Readable(TraceState)[k + 2].eEvent
            \in {PTL_EVENT_START, PTL_EVENT_COMPLETE, PTL_EVENT_DEADLINE_MISS}

\* wrapper i is between the return of ulTaskNotifyTake and the end of a job
InJob(i) == xWrappers[i].pc \notin {"none", "entry", "take"}

\* C12: every OVERRUN_KILL record is immediately followed by a RELEASE record
\* of the same task with the same timestamp, and a job deleted by KILL does
\* nothing afterwards: whatever the task's wrapper starts, completes or
\* counts after a KILL belongs to a job released later than the killed one.
C12_KilledJobNeverResumes ==
    /\ \A k \in DOMAIN Readable(TraceState) :
          Readable(TraceState)[k].eEvent = PTL_EVENT_OVERRUN_KILL
             => FollowedBy(TraceState, k, PTL_EVENT_RELEASE)
    /\ \A i \in Tasks :
          (xHistory.killedJob[i] > 0 /\ InJob(i))
             => xHistory.wjob[i] > xHistory.killedJob[i]

\* C12 witness: a job was killed while its body ran, and the re-created
\* wrapper has completed the job released by the KILL
C12_Witness ==
    \E i \in Tasks :
       /\ xTaskPool[i].ulOverrunKills > 0
       /\ xHistory.killedJob[i] > 0
       /\ xWrappers[i].pc = "logComplete"
       /\ xHistory.wjob[i] = xHistory.killedJob[i] + 1

\* a release transition of task i that ran to its end
Released(i) ==
    /\ xHistory'.releases[i] # xHistory.releases[i]
    /\ xSupervisor'.state = "running"

\* C13: after a task's first release, xNextReleaseTime - xCurrentReleaseTime
\* is a positive multiple of the period (whether or not a job is active),
\* and it is exactly the period right after every release transition
\* (nominal, KILL or CATCH_UP).
C13_ReleaseTimesOnePeriodApart ==
    [][ \A i \in Tasks :
          LET xGap == xTaskPool'[i].xNextReleaseTime - xTaskPool'[i].xCurrentReleaseTime
              xPeriod == xTaskPool'[i].xConfig.xPeriod
          IN  /\ xHistory'.releases[i] > 0 =>
                    (xGap > 0 /\ xGap % xPeriod = 0)
              /\ Released(i) => xGap = xPeriod
              /\ xTaskPool'[i].xNextReleaseTime >= xTaskPool[i].xNextReleaseTime
              /\ xTaskPool'[i].xCurrentReleaseTime >= xTaskPool[i].xCurrentReleaseTime ]_vars

\* C13 witness: a job is active two periods after its release (its task was
\* skipped), and a task that was skipped has been released again
C13_Witness ==
    /\ \E i \in Tasks :
          /\ xTaskPool[i].xIsActive
          /\ xTaskPool[i].xNextReleaseTime
               = xTaskPool[i].xCurrentReleaseTime + 2 * xTaskPool[i].xConfig.xPeriod
    /\ \E i \in Tasks : xTaskPool[i].ulOverrunSkips > 0 /\ xHistory.releases[i] >= 2

\* the number of records of task i with event eType among the first n
\* records of the readable range
CountIn(tr, n, i, eType) ==
    Cardinality({ k \in 1..n :
        /\ Readable(tr)[k].pcTaskName = xTaskPool[i].xConfig.pcName
        /\ Readable(tr)[k].eEvent = eType })

\* C14: with tracing enabled and the ring not yet wrapped, every START of a
\* task is preceded by a RELEASE of the task that no earlier START has used
\* (in every prefix of the trace the STARTs of a task are at most its
\* RELEASEs), and a wrapper is inside a job only after it has taken a
\* notification the supervisor gave for a release.
C14_StartNeedsRelease ==
    \A i \in Tasks :
       /\ (xTracingEnabled /\ ~xBufferWrapped) =>
             \A n \in 0..SnapshotCount(TraceState) :
                CountIn(TraceState, n, i, PTL_EVENT_START)
                   <= CountIn(TraceState, n, i, PTL_EVENT_RELEASE)
       /\ InJob(i) => xHistory.wjob[i] \in 1..xHistory.releases[i]

\* C14 witness: the unwrapped ring holds the RELEASE of every task and, after
\* them, the START of every task, and every wrapper is inside its first job
C14_Witness ==
    /\ xTracingEnabled /\ ~xBufferWrapped
    /\ uxRegisteredTaskCount = NumTasks
    /\ \A i \in Tasks :
          /\ CountIn(TraceState, SnapshotCount(TraceState), i, PTL_EVENT_START) = 1
          /\ CountIn(TraceState, NumTasks, i, PTL_EVENT_RELEASE) = 1
          /\ xWrappers[i].pc = "body"
          /\ xHistory.wjob[i] = 1

\* C15: the pending notification count of every wrapper is at most 1.
C15_NotificationAtMostOne ==
    \A i \in Tasks : xWrappers[i].ulNotifiedValue <= 1

\* the wrapper of task i has completed the task's current job
CurrentJobDone(i) ==
    /\ xHistory.wjob[i] = xHistory.releases[i]
    /\ xWrappers[i].pc \in {"incJobs", "take"}

\* task i is released in this step without any overrun policy applied
NominalRelease(i) ==
    /\ xHistory'.releases[i] # xHistory.releases[i]
    /\ xTaskPool'[i].ulOverrunKills = xTaskPool[i].ulOverrunKills
    /\ xTaskPool'[i].ulOverrunCatchUps = xTaskPool[i].ulOverrunCatchUps

\* C16: a nominal RELEASE of a task is issued only when the job of its
\* previous release has completed; a previous job that is running,
\* preempted or not yet started makes the release instant an overrun.
C16_NominalReleaseOnlyAfterCompletion ==
    [][ \A i \in Tasks :
          (NominalRelease(i) /\ xHistory.releases[i] > 0) => CurrentJobDone(i) ]_vars

\* C20: when re-creating the wrapper fails during KILL the supervisor halts
\* for ever: in that pass nothing follows the failed creation (the killed
\* task's release times are not advanced, the later tasks are not looked
\* at), and from then on no step changes the task pool, the trace, a
\* wrapper, the kernel's tasks or the supervisor's state: no restart.
C20_KillFailureHaltsForEver ==
    [][ /\ xHistory'.fatal => xSupervisor'.state = "halted"
        /\ xHistory.fatal =>
              UNCHANGED <<ptlVars, traceVars, xWrappers, uxKernelTasks,
                          uxHandlesCreated, xSupervisor, xHistory>>
        /\ (~xHistory.fatal /\ xHistory'.fatal) =>
              LET last == xHistory'.pass[Len(xHistory'.pass)]
              IN  /\ last.eEvent = PTL_EVENT_RELEASE
                  /\ xWrappers'[last.task] = NoWrapper
                  /\ xTaskPool'[last.task].xNextReleaseTime =
                        xTaskPool[last.task].xNextReleaseTime
                  /\ \A j \in (last.task + 1)..uxRegisteredTaskCount :
                        /\ xTaskPool'[j] = xTaskPool[j]
                        /\ xWrappers'[j] = xWrappers[j] ]_vars

\* C20 witness: the supervisor halted on a failed re-creation, ticks have
\* passed since, and the release of another task has come due without
\* being made
C20_Witness ==
    /\ xHistory.fatal
    /\ xSupervisor.state = "halted"
    /\ \E i, j \in Tasks :
          /\ i # j
          /\ xWrappers[i] = NoWrapper
          /\ xTickCount > xHistory.lastRelTick[i]
          /\ xWrappers[j] # NoWrapper
          /\ xTickCount >= xTaskPool[j].xNextReleaseTime
          /\ xHistory.lastRelTick[j] < xHistory.lastRelTick[i]

\* the supervisor's pass of this step is the first one that releases a task
FirstReleasePass ==
    /\ \A i \in Tasks : xHistory.releases[i] = 0
    /\ \E i \in Tasks : xHistory'.releases[i] > 0

\* C21: the first RELEASE of every registered task is made in one and the
\* same supervisor pass, in which the supervisor writes nothing but one
\* RELEASE record per task, all with the tick of the pass as timestamp; after
\* that pass xCurrentReleaseTime of every task is the start time the
\* supervisor read once before its loop.
C21_CommonEpoch ==
    [][ FirstReleasePass =>
           /\ \A i \in Tasks :
                 /\ xHistory'.releases[i] = 1
                 /\ xTaskPool'[i].xCurrentReleaseTime = xSupervisor.xSystemStartTime
                 /\ xWrappers'[i].ulNotifiedValue = 1
           /\ xHistory'.pass =
                 [i \in Tasks |-> [task |-> i, eEvent |-> PTL_EVENT_RELEASE,
                                   xTimestamp |-> xTickCount']] ]_vars

\* C21 witness: every task has been released once, the ring holds their
\* RELEASE records side by side with one timestamp, and the common epoch is
\* the (non-zero) start time
C21_Witness ==
    /\ NumTasks >= 2
    /\ xSupervisor.xSystemStartTime > 0
    /\ \A i \in Tasks :
          /\ xHistory.releases[i] = 1
          /\ xTaskPool[i].xCurrentReleaseTime = xSupervisor.xSystemStartTime
          /\ xTraceBuffer[i - 1] = [pcTaskName |-> xTaskPool[i].xConfig.pcName,
                                    eEvent |-> PTL_EVENT_RELEASE,
                                    xTimestamp |-> xHistory.lastRelTick[1]]

\* the overrun counters of task i
Overruns(pxTask) ==
    pxTask.ulOverrunSkips + pxTask.ulOverrunKills + pxTask.ulOverrunCatchUps

\* task i is inside the body of its current job, which it started in the
\* tick of its release, no wrapper has a higher priority, and at the coming
\* tick the body will have run for less than the period
ShortJobRunning(i) ==
    /\ xWrappers[i].pc = "body"
    /\ xHistory.wjob[i] = xHistory.releases[i]
    /\ xWrappers[i].xJobStartTime = xHistory.lastRelTick[i]
    /\ \A j \in Tasks : xTaskPool[j].xConfig.uxPriority <= xTaskPool[i].xConfig.uxPriority
    /\ xTickCount' - xWrappers[i].xJobStartTime < xTaskPool[i].xConfig.xPeriod

\* C22: while a job that started at its release has been executing for less
\* than the period, and no other wrapper can delay it, the supervisor counts
\* no overrun for its task and logs no OVERRUN_* record of it, the first job
\* included; with D = T it records no deadline miss either.
C22_ShortJobNeverOverruns ==
    [][ \A i \in Tasks :
           ShortJobRunning(i) =>
              /\ Overruns(xTaskPool'[i]) = Overruns(xTaskPool[i])
              /\ \A k \in DOMAIN xHistory'.pass :
                    xHistory'.pass[k].task = i =>
                       xHistory'.pass[k].eEvent \notin
                          {PTL_EVENT_OVERRUN_SKIP, PTL_EVENT_OVERRUN_KILL,
                           PTL_EVENT_OVERRUN_CATCHUP}
              /\ xTaskPool[i].xConfig.xDeadline = xTaskPool[i].xConfig.xPeriod =>
                    xTaskPool'[i].ulDeadlineMisses = xTaskPool[i].ulDeadlineMisses ]_vars

\* the record written last
LastRecord(tr) ==
    tr.buf[(tr.ulWriteIndex + PTL_TRACE_BUFFER_SIZE - 1) % PTL_TRACE_BUFFER_SIZE]

\* wrapper i goes from one place of its loop to another in this step
WrapperMoves(i, from, to) ==
    /\ xWrappers[i].pc = from
    /\ xWrappers'[i].pc = to
    /\ xTickCount' = xTickCount

\* C23: a job's start stamp is not earlier than xCurrentReleaseTime as it is
\* when the stamp is taken, which never decreases and so is at least the
\* value the release that notified the job assigned; the job logs START with
\* that stamp, and when it logs COMPLETE the end stamp is not earlier than
\* the start stamp (the two may be equal).
C23_StampsOrdered ==
    [][ \A i \in Tasks :
           /\ xTaskPool'[i].xCurrentReleaseTime >= xTaskPool[i].xCurrentReleaseTime
           /\ WrapperMoves(i, "stampStart", "logStart") =>
                 /\ xWrappers'[i].xJobStartTime >= xTaskPool[i].xCurrentReleaseTime
                 /\ xTaskPool[i].xCurrentReleaseTime = xHistory.lastRelSched[i]
                 /\ xHistory.wjob[i] <= xHistory.releases[i]
           /\ WrapperMoves(i, "logStart", "body") =>
                 LastRecord(TraceState)' =
                    [pcTaskName |-> xTaskPool[i].xConfig.pcName,
                     eEvent |-> PTL_EVENT_START,
                     xTimestamp |-> xWrappers[i].xJobStartTime]
           /\ WrapperMoves(i, "logComplete", "check") =>
                 /\ LastRecord(TraceState)' =
                       [pcTaskName |-> xTaskPool[i].xConfig.pcName,
                        eEvent |-> PTL_EVENT_COMPLETE,
                        xTimestamp |-> xWrappers[i].xJobEndTime]
                 /\ xWrappers[i].xJobEndTime >= xWrappers[i].xJobStartTime ]_vars

\* C23 witness: a job that started and completed within one tick, its START
\* and COMPLETE records in the ring with the same timestamp
C23_Witness ==
    \E i \in Tasks :
       /\ xWrappers[i].pc = "check"
       /\ xWrappers[i].xJobEndTime = xWrappers[i].xJobStartTime
       /\ xWrappers[i].xJobStartTime > xTaskPool[i].xCurrentReleaseTime
       /\ TraceHas(TraceState, i, PTL_EVENT_START, xWrappers[i].xJobStartTime)
       /\ LastRecord(TraceState) =
             [pcTaskName |-> xTaskPool[i].xConfig.pcName,
              eEvent |-> PTL_EVENT_COMPLETE,
              xTimestamp |-> xWrappers[i].xJobEndTime]

\* task i as the deadline surveillance of the coming pass leaves it, before
\* the release decision
AfterPhaseA(i) == PhaseA(PassState, i, xTickCount').pool[i]

\* C25: the SKIP transition changes, for its task, only ulOverrunSkips (+1)
\* and xNextReleaseTime (+T) and writes one OVERRUN_SKIP record:
\* xCurrentReleaseTime, xIsActive, xDeadlineMissed, ulDeadlineMisses,
\* ulJobsCompleted, the task handle and the pending notifications stay as
\* the deadline surveillance of the same pass left them.
C25_SkipFrame ==
    [][ \A i \in Tasks :
           SkipApplied(i) =>
              /\ xTaskPool'[i] =
                    [AfterPhaseA(i) EXCEPT
                        !.ulOverrunSkips = @ + 1,
                        !.xNextReleaseTime = @ + xTaskPool[i].xConfig.xPeriod]
              /\ xWrappers'[i] = xWrappers[i]
              /\ Cardinality({ k \in DOMAIN xHistory'.pass :
                    /\ xHistory'.pass[k].task = i
                    /\ xHistory'.pass[k].eEvent = PTL_EVENT_OVERRUN_SKIP }) = 1 ]_vars

\* CATCH_UP is applied to task i in this step
CatchUpApplied(i) ==
    xTaskPool'[i].ulOverrunCatchUps # xTaskPool[i].ulOverrunCatchUps

\* C26: in the state right after a CATCH_UP transition of a task xIsActive is
\* false (the supervisor forces it before notifying the wrapper),
\* xCurrentReleaseTime is the previous xNextReleaseTime, xNextReleaseTime
\* has advanced by the period and ulOverrunCatchUps has increased by one.
C26_CatchUpForcesInactive ==
    [][ \A i \in Tasks :
           CatchUpApplied(i) =>
              /\ xTaskPool'[i].xIsActive = FALSE
              /\ xTaskPool'[i].xCurrentReleaseTime = xTaskPool[i].xNextReleaseTime
              /\ xTaskPool'[i].xNextReleaseTime =
                    xTaskPool[i].xNextReleaseTime + xTaskPool[i].xConfig.xPeriod
              /\ xTaskPool'[i].ulOverrunCatchUps = xTaskPool[i].ulOverrunCatchUps + 1 ]_vars

\* KILL is applied to task i in this step and the wrapper is re-created
KillApplied(i) ==
    /\ xTaskPool'[i].ulOverrunKills # xTaskPool[i].ulOverrunKills
    /\ ~xHistory'.fatal

\* C27: a KILL keeps the slot of its task: the configuration and the
\* counters ulJobsCompleted, ulDeadlineMisses, ulOverrunSkips and
\* ulOverrunCatchUps stay as the deadline surveillance of the pass left them;
\* the handle is a new one, xIsActive and xDeadlineMissed are false, the
\* release times advance as in a release, and the re-created wrapper is at
\* the top of PTL_GenericWrapper with exactly one notification pending.
C27_KillKeepsSlot ==
    [][ \A i \in Tasks :
           KillApplied(i) =>
              /\ xTaskPool'[i] =
                    [AfterPhaseA(i) EXCEPT
                        !.ulOverrunKills = @ + 1,
                        !.xTaskHandle = xTaskPool'[i].xTaskHandle,
                        !.xIsActive = FALSE,
                        !.xDeadlineMissed = FALSE,
                        !.xCurrentReleaseTime = xTaskPool[i].xNextReleaseTime,
                        !.xNextReleaseTime = @ + xTaskPool[i].xConfig.xPeriod]
              /\ xTaskPool'[i].xTaskHandle \in (uxHandlesCreated + 1)..uxHandlesCreated'
              /\ xWrappers'[i] = [FreshWrapper EXCEPT !.ulNotifiedValue = 1]
              /\ uxKernelTasks' = uxKernelTasks ]_vars

\* C27 witness: a task that completed a job and had a deadline miss counted
\* has been killed; its counters are kept and its new wrapper waits at the
\* top with one notification
C27_Witness ==
    \E i \in Tasks :
       /\ xTaskPool[i].ulOverrunKills = 1
       /\ xTaskPool[i].ulJobsCompleted >= 1
       /\ xTaskPool[i].ulDeadlineMisses >= 1
       /\ xTaskPool[i].xTaskHandle > NumTasks
       /\ ~xTaskPool[i].xIsActive
       /\ xWrappers[i] = [FreshWrapper EXCEPT !.ulNotifiedValue = 1]
       /\ xSupervisor.state = "running"

\* the events of the release decision
ReleaseEvents ==
    {PTL_EVENT_RELEASE, PTL_EVENT_OVERRUN_SKIP, PTL_EVENT_OVERRUN_KILL,
     PTL_EVENT_OVERRUN_CATCHUP}

\* C28 (as stated): in the records of one supervisor pass no deadline
\* observation (DEADLINE_MISS) of any task comes after a release decision
\* (RELEASE, OVERRUN_*) of any task.
C28_AllObservationsFirst ==
    \A k, l \in DOMAIN xHistory.pass :
       (k < l /\ xHistory.pass[k].eEvent \in ReleaseEvents)
          => xHistory.pass[l].eEvent # PTL_EVENT_DEADLINE_MISS

\* C28 (amended): a pass handles the tasks in registration order, and for
\* each task the deadline observation comes before the release decision of
\* that same task.
C28_ObservationBeforeOwnDecision ==
    [][ (xTickCount' # xTickCount /\ xSupervisor.state = "running") =>
           \A k, l \in DOMAIN xHistory'.pass :
                 k < l =>
                    /\ xHistory'.pass[k].task <= xHistory'.pass[l].task
                    /\ (/\ xHistory'.pass[k].task = xHistory'.pass[l].task
                        /\ xHistory'.pass[k].eEvent \in ReleaseEvents)
                          => xHistory'.pass[l].eEvent # PTL_EVENT_DEADLINE_MISS ]_vars

\* C28 witness: a pass that made a release decision for the first task and
\* then observed a deadline miss of the second, which it released after that
C28_Witness ==
    \E k \in DOMAIN xHistory.pass :
       /\ k + 2 \in DOMAIN xHistory.pass
       /\ xHistory.pass[k].task = 1
       /\ xHistory.pass[k].eEvent \in ReleaseEvents
       /\ xHistory.pass[k + 1].task = 2
       /\ xHistory.pass[k + 1].eEvent = PTL_EVENT_DEADLINE_MISS
       /\ xHistory.pass[k + 2].task = 2
       /\ xHistory.pass[k + 2].eEvent \in ReleaseEvents

\* the places of PTL_GenericWrapper from the store of xIsActive = pdTRUE to
\* the store of xIsActive = pdFALSE
ActiveSection ==
    {"stampStart", "logStart", "body", "logComplete", "check", "latch",
     "missLoad", "missStore", "logMiss", "clearActive"}

\* C29: whenever xIsActive is true the wrapper is inside the job section of
\* its loop, and the job it runs is the one xCurrentReleaseTime refers to:
\* the job of the task's latest release, under all three policies.
C29_ActiveMeansCurrentJob ==
    \A i \in Tasks :
       xTaskPool[i].xIsActive = TRUE =>
          /\ xWrappers[i].pc \in ActiveSection
          /\ xHistory.wjob[i] = xHistory.releases[i]
          /\ xTaskPool[i].xCurrentReleaseTime = xHistory.lastRelSched[i]

\* the supervisor makes a pass in this step
SupervisorPasses ==
    /\ xTickCount' # xTickCount
    /\ xSupervisor.state = "running"

\* C30: the wrapper's updates of the shared fields are atomic with respect
\* to the supervisor: no pass runs while a wrapper is between the load and
\* the store of ulDeadlineMisses++ or between the store of xIsActive =
\* pdFALSE and ulJobsCompleted++, and the store of the increment leaves the
\* counter one above its current value (no increment is lost).
C30_WrapperUpdatesAtomic ==
    [][ \A i \in Tasks :
           /\ SupervisorPasses => xWrappers[i].pc \notin {"missStore", "incJobs"}
           /\ WrapperMoves(i, "missStore", "logMiss") =>
                 xTaskPool'[i].ulDeadlineMisses = xTaskPool[i].ulDeadlineMisses + 1 ]_vars

\* C31: when the ring is not empty the record written last carries a
\* timestamp at least as large as that of every other readable record,
\* whichever way the writes of the wrappers and of the supervisor interleave
\* (so the total time of the statistics is the latest time in the trace).
C31_LastRecordIsLatest ==
    SnapshotCount(TraceState) > 0 =>
       \A k \in DOMAIN Readable(TraceState) :
          Readable(TraceState)[k].xTimestamp <= LastRecord(TraceState).xTimestamp

\* C33: each application of CATCH_UP counts the displaced job as missed: the
\* transition itself adds one to ulDeadlineMisses, on top of what the
\* deadline surveillance of the same pass has counted.
C33_CatchUpCountsMiss ==
    [][ \A i \in Tasks :
           CatchUpApplied(i) =>
              xTaskPool'[i].ulDeadlineMisses = AfterPhaseA(i).ulDeadlineMisses + 1 ]_vars

\* the wrapper of task i is not between its deadline check and the record of
\* the miss it counts (ulDeadlineMisses++ and PTL_LogEvent(DEADLINE_MISS))
WrapperSettled(i) == xWrappers[i].pc \notin {"latch", "missLoad", "missStore", "logMiss"}

\* the number of readable records of task i whose event is in the set events
RecordsOf(i, events) ==
    Cardinality({ k \in DOMAIN Readable(TraceState) :
        /\ Readable(TraceState)[k].pcTaskName = xTaskPool[i].xConfig.pcName
        /\ Readable(TraceState)[k].eEvent \in events })

OverrunEvents ==
    {PTL_EVENT_OVERRUN_SKIP, PTL_EVENT_OVERRUN_KILL, PTL_EVENT_OVERRUN_CATCHUP}

\* the sum of f[1] .. f[n]
RECURSIVE SumTo(_, _)
SumTo(f, n) == IF n = 0 THEN 0 ELSE f[n] + SumTo(f, n - 1)

\* C39: with tracing enabled and the ring not wrapped, whenever no wrapper is
\* in the middle of counting a miss (the supervisor's pass is one step), the
\* counters agree with the trace: ulDeadlineMisses of every task is the
\* number of its DEADLINE_MISS records, the overruns value of
\* PTL_GetTaskStats is the number of its OVERRUN_* records, and the sums over
\* the tasks are ulDeadlineMisses and ulOverrunCount of PTL_GetTraceStatistics.
C39_CountersAgreeWithTrace ==
    /\ xTracingEnabled
    /\ ~xBufferWrapped
    /\ xSupervisor.state \in {"running", "halted"}
    /\ \A i \in Tasks : WrapperSettled(i)
    => /\ \A i \in Tasks :
             /\ xTaskPool[i].ulDeadlineMisses = RecordsOf(i, {PTL_EVENT_DEADLINE_MISS})
             /\ Overruns(xTaskPool[i]) = RecordsOf(i, OverrunEvents)
       /\ SumTo([i \in Tasks |-> xTaskPool[i].ulDeadlineMisses], uxRegisteredTaskCount)
             = PTL_GetTraceStatistics(TraceState).ulDeadlineMisses
       /\ SumTo([i \in Tasks |-> Overruns(xTaskPool[i])], uxRegisteredTaskCount)
             = PTL_GetTraceStatistics(TraceState).ulOverrunCount

(***************************************************************************)
(* Properties of the trace ring (SpecTrace).                               *)
(***************************************************************************)
\* the last n elements of a sequence
LastOf(seq, n) == SubSeq(seq, Len(seq) - n + 1, Len(seq))

\* C17: after n writes since PTL_TraceInit the readable range holds exactly
\* the min(n, C) most recently written records, in write order (so no older
\* record is readable once n >= C), and ulWriteIndex stays in [0, C).
C17_ReadableIsMostRecent ==
    LET n == Len(xHistory.written)
    IN  /\ ulWriteIndex \in 0..(PTL_TRACE_BUFFER_SIZE - 1)
        /\ SnapshotCount(TraceState) = Min(n, PTL_TRACE_BUFFER_SIZE)
        /\ Readable(TraceState) = LastOf(xHistory.written, Min(n, PTL_TRACE_BUFFER_SIZE))
        /\ \A k \in DOMAIN Readable(TraceState) :
              Readable(TraceState)[k].pcTaskName # "OLD"

\* C17 witness: more records written than the ring holds, the oldest
\* readable record being the second one written
C17_Witness ==
    /\ Len(xHistory.written) = PTL_TRACE_BUFFER_SIZE + 1
    /\ xBufferWrapped
    /\ ulWriteIndex = 1
    /\ Readable(TraceState)[1] = xHistory.written[2]
    /\ xHistory.written[1] # xHistory.written[2]

C32_WalkReadsSnapshot ==
    Walking =>
       \A k \in 1..Len(xReturn.seen) : xReturn.seen[k] = xReturn.snapshot[k]

(***************************************************************************)
(* Properties under every storable configuration (SpecConfig).             *)
(***************************************************************************)

\* the policy of task i by the configuration the application gave: its own
\* policy unless that is USE_GLOBAL, else the stored global policy
ConfiguredPolicy(i) ==
    IF xHistory.given[i].eOverrunPolicy # PTL_POLICY_USE_GLOBAL
    THEN xHistory.given[i].eOverrunPolicy
    ELSE eGlobalPolicy

\* the pass of this step finds task i still running at a due release
OverrunAt(i) ==
    /\ SupervisorPasses
    /\ xSupervisor'.state = "running"
    /\ xTickCount' >= xTaskPool[i].xNextReleaseTime
    /\ xTaskPool[i].xIsActive

\* C34: PTL_GetEffectivePolicy returns the task's own policy when that is not
\* USE_GLOBAL and the stored global policy otherwise, also for a null task;
\* the overrun policy the supervisor applies to a task (the counter it
\* increments) is always the one of that value, and an overrun of a task
\* whose effective policy is SKIP, KILL or CATCH_UP applies that policy.
C34_SupervisorAppliesEffectivePolicy ==
    [][ /\ PTL_GetEffectivePolicy(NULL, eGlobalPolicy) = eGlobalPolicy
        /\ \A i \in Tasks :
              /\ PTL_GetEffectivePolicy(xTaskPool[i], eGlobalPolicy) = ConfiguredPolicy(i)
              /\ xTaskPool'[i].ulOverrunSkips # xTaskPool[i].ulOverrunSkips
                    => ConfiguredPolicy(i) = PTL_POLICY_SKIP
              /\ xTaskPool'[i].ulOverrunKills # xTaskPool[i].ulOverrunKills
                    => ConfiguredPolicy(i) = PTL_POLICY_KILL
              /\ xTaskPool'[i].ulOverrunCatchUps # xTaskPool[i].ulOverrunCatchUps
                    => ConfiguredPolicy(i) = PTL_POLICY_CATCH_UP
              /\ OverrunAt(i) /\ ConfiguredPolicy(i) = PTL_POLICY_SKIP
                    => xTaskPool'[i].ulOverrunSkips = xTaskPool[i].ulOverrunSkips + 1
              /\ OverrunAt(i) /\ ConfiguredPolicy(i) = PTL_POLICY_KILL
                    => xTaskPool'[i].ulOverrunKills = xTaskPool[i].ulOverrunKills + 1
              /\ OverrunAt(i) /\ ConfiguredPolicy(i) = PTL_POLICY_CATCH_UP
                    => xTaskPool'[i].ulOverrunCatchUps = xTaskPool[i].ulOverrunCatchUps + 1
      ]_vars

\* a task whose own policy, CATCH_UP, differs from the global policy SKIP
\* has been caught up, and a task without a policy of its own has been
\* skipped
C34_Witness ==
    /\ eGlobalPolicy = PTL_POLICY_SKIP
    /\ xHistory.given[1].eOverrunPolicy = PTL_POLICY_CATCH_UP
    /\ xTaskPool[1].ulOverrunCatchUps > 0
    /\ xTaskPool[2].ulOverrunSkips > 0

\* the cadence of task i: its next release time is the supervisor's start
\* time plus one period per RELEASE and per SKIP transition of the task
Cadence(i) ==
    /\ xTaskPool[i].xNextReleaseTime >= xSupervisor.xSystemStartTime
    /\ xTaskPool[i].xNextReleaseTime - xSupervisor.xSystemStartTime =
          xTaskPool[i].xConfig.xPeriod *
             (xHistory.releases[i] + xTaskPool[i].ulOverrunSkips)

\* the release times of no task decrease in this step
ReleaseTimesMonotone ==
    \A i \in Tasks :
       /\ xTaskPool'[i].xNextReleaseTime >= xTaskPool[i].xNextReleaseTime
       /\ xTaskPool'[i].xCurrentReleaseTime >= xTaskPool[i].xCurrentReleaseTime

ReleaseLogged(i) ==
    \E k \in DOMAIN xHistory'.pass :
       /\ xHistory'.pass[k].task = i
       /\ xHistory'.pass[k].eEvent = PTL_EVENT_RELEASE
       /\ xHistory'.pass[k].xTimestamp = xTickCount'

\* C36: in every pass in which no re-creation fails, every task with the
\* policy SKIP, KILL or CATCH_UP (its own or the global one) whose release
\* instant is due gets its RELEASE (one record, the release counted
\* for that instant) unless the task is found running and its policy is
\* SKIP, in which case no RELEASE is written; after the pass no release
\* instant of any task lies before the tick of the pass, so the release
\* stream never stalls, however long the job bodies run.
C36_ReleaseAtEveryInstant ==
    [][ \A i \in Tasks :
           /\ SupervisorPasses
           /\ xSupervisor'.state = "running"
           /\ xTickCount' >= xTaskPool[i].xNextReleaseTime
           /\ ConfiguredPolicy(i) \in {PTL_POLICY_SKIP, PTL_POLICY_KILL,
                                       PTL_POLICY_CATCH_UP}
           => /\ IF OverrunAt(i) /\ ConfiguredPolicy(i) = PTL_POLICY_SKIP
                 THEN /\ xHistory'.releases[i] = xHistory.releases[i]
                      /\ ~ReleaseLogged(i)
                 ELSE /\ xHistory'.releases[i] = xHistory.releases[i] + 1
                      /\ xHistory'.lastRelSched[i] = xTaskPool[i].xNextReleaseTime
                      /\ ReleaseLogged(i)
              /\ xTaskPool'[i].xNextReleaseTime >= xTickCount' ]_vars

\* a task with the policy CATCH_UP has been caught up and released again
\* while the other task, under the global policy KILL, has been killed and
\* released again
C36_Witness ==
    /\ xSupervisor.state = "running"
    /\ eGlobalPolicy = PTL_POLICY_KILL
    /\ xHistory.given[1].eOverrunPolicy = PTL_POLICY_CATCH_UP
    /\ xTaskPool[1].ulOverrunCatchUps > 0
    /\ xTaskPool[2].ulOverrunKills > 0
    /\ \A i \in Tasks : xHistory.releases[i] >= 2

\* C37: every release decision of a pass for a task whose release is due
\* (xNow >= xNextReleaseTime) advances the task's xNextReleaseTime by
\* exactly one period, whatever global and per-task policy PTL_Init has
\* stored (in a pass that does not halt on a failed re-creation).
C37_DecisionAdvancesRelease ==
    [][ \A i \in Tasks :
           /\ SupervisorPasses
           /\ xSupervisor'.state = "running"
           /\ xTickCount' >= xTaskPool[i].xNextReleaseTime
           => xTaskPool'[i].xNextReleaseTime =
                 xTaskPool[i].xNextReleaseTime + xTaskPool[i].xConfig.xPeriod ]_vars

\* C38: when tracing is disabled in the global configuration no step of the
\* supervisor or of a wrapper writes a record: the ring, its write index and
\* its wrapped flag stay as they are.
C38_NoRecordWhenTracingDisabled ==
    [][ ~xTracingEnabled =>
           UNCHANGED <<xTraceBuffer, ulWriteIndex, xBufferWrapped>> ]_vars

(***************************************************************************)
(* Priorities at start (SpecInit).                                         *)
(***************************************************************************)
\* C19: once PTL_Start has created the supervisor, its priority
\* (configMAX_PRIORITIES - 1) is strictly greater than the priority of every
\* registered wrapper task; a configuration with a task at or above the
\* supervisor's priority is never started.
C19_SupervisorDominatesWrappers ==
    xSupervisor.state = "created" =>
        \A i \in 1..uxRegisteredTaskCount :
            xTaskPool[i].xConfig.uxPriority < PTL_SUPERVISOR_PRIORITY

====
